---- MODULE Spec2Model ----
(***************************************************************************)
(* A model of voxmlx: the rotating key/value cache (voxmlx/cache.py), the  *)
(* incremental spectral frontend (voxmlx/audio.py), the streaming          *)
(* orchestrator (voxmlx/stream.py, with the frame arithmetic of            *)
(* voxmlx/encoder.py and voxmlx/model.py), the incremental encoder         *)
(* frontend at frame level (voxmlx/encoder.py, voxmlx/model.py), the       *)
(* decode loops over token ids (voxmlx/generate.py, voxmlx/stream.py),     *)
(* the STT worker session protocol (stt_port_worker.py), the TTS worker    *)
(* command loop (tts_port_worker.py) and the framing of the worker input   *)
(* channel (stt_port_worker.py, tts_port_worker.py).                       *)
(*                                                                         *)
(* Each component has its own specification (SpecCache, SpecCacheEquiv,    *)
(* SpecMel, SpecStream, SpecEncoder, SpecDecode, SpecWorker, its fair      *)
(* variant SpecWorkerFair and its restart scenario SpecWorkerRestart,      *)
(* SpecRecv, SpecTts); the variables of the other components stay at their *)
(* initial values.                                                         *)
(***************************************************************************)
EXTENDS Integers, Sequences, FiniteSets, TLC

VARIABLES
    \* ---- RotatingKVCache under arbitrary update sequences (SpecCache)
    cache,        \* the cache object: keys, _offset, _idx, max_size, step
    ret,          \* what the last update_and_fetch returned (<<>> before)
    lastOp,       \* "none" | "bulk" | "single": the kind of the last update
    firstOp,      \* the kind of the first update
    nBulk,        \* number of bulk updates so far
    nSingle,      \* number of single-position updates so far
    \* ---- two fresh caches fed the same positions (SpecCacheEquiv)
    nPos,         \* the length n of the position sequence
    bulkCache,    \* cache fed by one bulk update
    bulkRet,      \* what that update returned (<<>> before it)
    stepCache,    \* cache fed by n single-position updates
    stepRet,      \* what its last update returned
    \* ---- log_mel_spectrogram_step over one buffer fed in chunks (SpecMel)
    melFed,       \* samples of the buffer fed so far
    melTail,      \* the audio_tail carried to the next call (None at first)
    melFrames,    \* where each frame emitted so far starts in the left-padded
                  \* buffer (its window is the next N_FFT samples)
    melCalls,     \* number of calls so far
    \* ---- stream_transcribe (SpecStream); arrays are held by their lengths
    audio_buf,    \* samples captured by the callback and not yet drained
    st,           \* the locals of stream_transcribe the main loop carries
    nBlocks,      \* number of capture callbacks so far
    ledger,       \* samples drained from audio_buf and fed to the encoder,
                  \* embeddings the encoder produced and the decoder took
    flush,        \* what the final flush after the loop did (stopped: FALSE before)
    \* ---- the STT worker (SpecWorker)
    sessions,     \* the session table: id -> session object (0: no entry)
    sess,         \* the session objects, in creation order
    sessions_lock,\* the set of threads holding the table lock
    pollers,      \* the partial_loop threads; thread i polls from sess[i] on
    fg,           \* the foreground loop: position and locals of main()
    model_bundle, \* _model_bundle is loaded
    inModel,      \* the threads inside generate
    wire,         \* the pieces written to stdout that the peer has not yet
                  \* taken as whole frames, in order
    alive,        \* the process has not exited
    nCmds,        \* frames read so far
    nOdd,         \* frames of OddKinds read so far
    arrived,      \* per id: payloads of the valid audio_chunk commands read
                  \* for it while it had an entry, since its last
                  \* start_session made the entry
    script,       \* per id: what the commands read for it, from that
                  \* start_session on, amount to (see NextScript)
    since,        \* per id: the number of events of each name sent for it
                  \* since that start_session, the chunk_count of the last
                  \* partial event among them, and how many partial events
                  \* carried a lower chunk_count than the one before
    raised,       \* per id: a transcription for it has raised
    atRecv,       \* session table and data when the last frame was read
    fgSent,       \* events the foreground sent since the last frame was read
    \* ---- recv_packet and the loop of main() (SpecRecv)
    stdin,        \* the bytes of the input channel not yet read
    rx,           \* the last pass of the loop: its number, the input it
                  \* started from, the value recv_packet returned, what
                  \* was sent, and whether the loop goes on
    \* ---- the decode loops over sampled token ids (SpecDecode)
    gen,          \* the last call of generate: the tokens sampled, the
                  \* number of positions after the prefix, the list returned
    tok,          \* stream_transcribe: the pending token y, the tokens
                  \* sampled and the tokens printed so far
    \* ---- the TTS worker (SpecTts)
    tts,          \* the loop of main(): position, the command being handled
                  \* and the locals of its handler
    tts_sessions, \* the keys of the sessions dict
    tts_sent,     \* events written since the last frame was read
    peer,         \* "open" | "gone": the reader of the output channel
    nTts,         \* frames read so far
    \* ---- encode_step over one stream of mel frames (SpecEncoder)
    encoder       \* the state carried between calls, with what the calls
                  \* have computed so far

cacheVars == <<cache, ret, lastOp, firstOp, nBulk, nSingle>>
equivVars == <<nPos, bulkCache, bulkRet, stepCache, stepRet>>
melVars == <<melFed, melTail, melFrames, melCalls>>
streamVars == <<audio_buf, st, nBlocks, ledger, flush>>
workerVars == <<sessions, sess, sessions_lock, pollers, fg, model_bundle,
                inModel, wire, alive, nCmds, nOdd, arrived, script, since,
                raised, atRecv, fgSent>>
recvVars == <<stdin, rx>>
decodeVars == <<gen, tok>>
ttsVars == <<tts, tts_sessions, tts_sent, peer, nTts>>
encoderVars == <<encoder>>
vars == <<cacheVars, equivVars, melVars, streamVars, workerVars, recvVars,
          decodeVars, ttsVars, encoderVars>>

\* What an action of one component leaves alone.
notCache == <<equivVars, melVars, streamVars, workerVars, recvVars,
              decodeVars, ttsVars, encoderVars>>
notEquiv == <<cacheVars, melVars, streamVars, workerVars, recvVars,
              decodeVars, ttsVars, encoderVars>>
notMel == <<cacheVars, equivVars, streamVars, workerVars, recvVars,
            decodeVars, ttsVars, encoderVars>>
notStream == <<cacheVars, equivVars, melVars, workerVars, recvVars,
               decodeVars, ttsVars, encoderVars>>
notWorker == <<cacheVars, equivVars, melVars, streamVars, recvVars,
               decodeVars, ttsVars, encoderVars>>
notRecv == <<cacheVars, equivVars, melVars, streamVars, workerVars,
             decodeVars, ttsVars, encoderVars>>
notDecode == <<cacheVars, equivVars, melVars, streamVars, workerVars,
               recvVars, ttsVars, encoderVars>>
notTts == <<cacheVars, equivVars, melVars, streamVars, workerVars, recvVars,
            decodeVars, encoderVars>>
notEncoder == <<cacheVars, equivVars, melVars, streamVars, workerVars,
                recvVars, decodeVars, ttsVars>>

\* Python's None, for a name that otherwise holds a record.
None == [none |-> TRUE]

Min(a, b) == IF a < b THEN a ELSE b
Max(a, b) == IF a > b THEN a ELSE b

\* Python's v[lo:hi] for 0 <= lo, on a sequence indexed from 1.
PySlice(v, lo, hi) ==
    LET h == Min(hi, Len(v))
    IN  IF lo >= h THEN <<>> ELSE [i \in 1..(h - lo) |-> v[lo + i]]

\* mx.zeros: n empty slots (0 is the content of a slot never written).
Zeros(n) == [i \in 1..n |-> 0]

\* The positions first..last, each named by its rank in the append order.
Positions(first, last) == [i \in 1..(last - first + 1) |-> first + i - 1]

-----------------------------------------------------------------------------
(* RotatingKVCache (voxmlx/cache.py).  keys and values undergo the same    *)
(* slicing and concatenation, so one buffer of position names stands for   *)
(* both; "alloc" is FALSE while self.keys is None.                         *)

\* Bounds of the cache specifications.
MaxSize == 6        \* largest max_size a cache is constructed with
MaxBulk == 3        \* largest number of positions in one bulk update
MaxUpdates == 7     \* cap on the number of update_and_fetch calls
SmallStep == 2      \* a block size below MaxSize, next to the real one

\* RotatingKVCache.step
step == 256

\* The block sizes the cache is run with: the class attribute, and
\* scaled-down ones so that growth in blocks happens below max_size.
StepValues == (1..SmallStep) \cup {step}

NewCache(max_size, stp) ==
    [keys |-> <<>>, alloc |-> FALSE, offset |-> 0, idx |-> 0,
     max_size |-> max_size, step |-> stp]

\* _trim(trim_size, v, append)
Trim(trim_size, v, append) ==
    (IF trim_size > 0 THEN PySlice(v, trim_size, Len(v)) ELSE v) \o append

\* A variant that leaves the buffer in the order it is stored in.
TemporalOrderAsStored(c, v) == v

\* _temporal_order(v)
TemporalOrder(c, v) ==
    IF c.idx = Len(v) THEN v
    ELSE IF c.idx < c.offset
         THEN PySlice(v, c.idx, Len(v)) \o PySlice(v, 0, c.idx)
         ELSE PySlice(v, 0, c.idx)

\* _update_concat(keys, values): the cache after the update; it returns
\* self.keys.
UpdateConcat(c, new) ==
    LET ordered == TemporalOrder(c, c.keys)
        trim_size == Len(ordered) - c.max_size + 1
        keys2 == IF ~c.alloc THEN new ELSE Trim(trim_size, ordered, new)
    IN  [c EXCEPT !.keys = keys2, !.alloc = TRUE,
                  !.offset = c.offset + Len(new), !.idx = Len(keys2)]

ConcatFetch(c) == c.keys

\* A variant of the growth step that extends the buffer one slot at a time.
InPlaceGrowByOne(c) ==
    LET prev == c.offset IN
    IF ~c.alloc \/ (prev >= Len(c.keys) /\ Len(c.keys) < c.max_size)
    THEN [c EXCEPT !.keys = c.keys \o Zeros(1), !.alloc = TRUE, !.idx = prev]
    ELSE c

\* _update_in_place, lines 57-72: grow the buffer by a block of empty slots.
InPlaceGrow(c) ==
    LET prev == c.offset IN
    IF ~c.alloc \/ (prev >= Len(c.keys) /\ Len(c.keys) < c.max_size)
    THEN LET new_size == Min(c.step, c.max_size - prev)
         IN  [c EXCEPT !.keys = c.keys \o Zeros(new_size), !.alloc = TRUE,
                       !.idx = prev]
    ELSE c

\* _update_in_place, lines 74-78: trim a buffer longer than max_size.
InPlaceTrim(c) ==
    LET trim_size == Len(c.keys) - c.max_size IN
    IF trim_size > 0
    THEN [c EXCEPT !.keys = Trim(trim_size, c.keys, <<>>), !.idx = c.max_size]
    ELSE c

\* _update_in_place, lines 80-81: rotate the write cursor.
InPlaceRotate(c) == IF c.idx = c.max_size THEN [c EXCEPT !.idx = 0] ELSE c

\* _update_in_place, lines 83-86: the slice assignment keys[idx:idx+1] = k
\* (an empty slice when idx is past the end), then the counters.
InPlaceWrite(c, k) ==
    [c EXCEPT !.keys = IF c.idx < Len(c.keys)
                       THEN [c.keys EXCEPT ![c.idx + 1] = k]
                       ELSE c.keys,
              !.offset = c.offset + 1,
              !.idx = c.idx + 1]

\* A variant that returns the whole buffer, preallocated empty slots included.
InPlaceFetchWholeBuffer(c) == c.keys

\* _update_in_place, lines 88-90: what the call returns.
InPlaceFetch(c) ==
    IF c.offset < c.max_size THEN PySlice(c.keys, 0, c.offset) ELSE c.keys

\* _update_in_place(keys, values) for one position k.
UpdateInPlace(c, k) == InPlaceWrite(InPlaceRotate(InPlaceTrim(InPlaceGrow(c))), k)

\* update_and_fetch(keys, values): the cache after the call.
UpdateAndFetch(c, new) ==
    IF Len(new) = 1 THEN UpdateInPlace(c, new[1]) ELSE UpdateConcat(c, new)

\* update_and_fetch(keys, values): the keys/values it returns.
Fetched(c, new) ==
    IF Len(new) = 1 THEN InPlaceFetch(UpdateAndFetch(c, new))
    ELSE ConcatFetch(UpdateAndFetch(c, new))

\* The cache while another component is under study.
CacheIdle ==
    /\ cache = NewCache(1, step)
    /\ ret = <<>>
    /\ lastOp = "none"
    /\ firstOp = "none"
    /\ nBulk = 0
    /\ nSingle = 0

CacheInit ==
    /\ \E m \in 1..MaxSize, s \in StepValues : cache = NewCache(m, s)
    /\ ret = <<>>
    /\ lastOp = "none"
    /\ firstOp = "none"
    /\ nBulk = 0
    /\ nSingle = 0

\* update_and_fetch with one new position.
SingleUpdate ==
    /\ nBulk + nSingle < MaxUpdates
    /\ LET new == Positions(cache.offset + 1, cache.offset + 1) IN
        /\ cache' = UpdateAndFetch(cache, new)
        /\ ret' = Fetched(cache, new)
    /\ lastOp' = "single"
    /\ firstOp' = IF firstOp = "none" THEN "single" ELSE firstOp
    /\ nSingle' = nSingle + 1
    /\ UNCHANGED <<nBulk, notCache>>

\* update_and_fetch with n > 1 new positions.
BulkUpdate ==
    /\ nBulk + nSingle < MaxUpdates
    /\ \E n \in 2..MaxBulk :
        LET new == Positions(cache.offset + 1, cache.offset + n) IN
        /\ cache' = UpdateAndFetch(cache, new)
        /\ ret' = Fetched(cache, new)
    /\ lastOp' = "bulk"
    /\ firstOp' = IF firstOp = "none" THEN "bulk" ELSE firstOp
    /\ nBulk' = nBulk + 1
    /\ UNCHANGED <<nSingle, notCache>>

-----------------------------------------------------------------------------
(* Two fresh caches of the same max_size fed the positions 1..n, n below   *)
(* max_size: one by a single bulk update, one by n single-position updates. *)

EquivIdle ==
    /\ nPos = 0
    /\ bulkCache = NewCache(1, step)
    /\ stepCache = NewCache(1, step)
    /\ bulkRet = <<>>
    /\ stepRet = <<>>

EquivInit ==
    /\ \E m \in 3..MaxSize, s \in StepValues :
        /\ bulkCache = NewCache(m, s)
        /\ stepCache = NewCache(m, s)
        /\ nPos \in 2..(m - 1)
    /\ bulkRet = <<>>
    /\ stepRet = <<>>

FeedBulk ==
    /\ ~bulkCache.alloc
    /\ bulkCache' = UpdateAndFetch(bulkCache, Positions(1, nPos))
    /\ bulkRet' = Fetched(bulkCache, Positions(1, nPos))
    /\ UNCHANGED <<nPos, stepCache, stepRet, notEquiv>>

FeedSingle ==
    /\ stepCache.offset < nPos
    /\ LET new == Positions(stepCache.offset + 1, stepCache.offset + 1) IN
        /\ stepCache' = UpdateAndFetch(stepCache, new)
        /\ stepRet' = Fetched(stepCache, new)
    /\ UNCHANGED <<nPos, bulkCache, bulkRet, notEquiv>>

-----------------------------------------------------------------------------
-----------------------------------------------------------------------------
(* The spectral frontend (voxmlx/audio.py).  A frame is a function of the  *)
(* N_FFT samples of its window, so a frame is named by where its window    *)
(* starts.  Every buffer the code builds is a run of consecutive samples   *)
(* of the left-padded input (the N_FFT / 2 zeros, then the samples in      *)
(* order), so a buffer is the interval [lo, hi) of it.                     *)

N_FFT == 400
HOP_LENGTH == 160
SAMPLES_PER_TOKEN == HOP_LENGTH * 2 * 4

\* Bounds of the frontend specification.
MaxMelSamples == 2560    \* longest buffer fed
MaxMelCalls == 4         \* cap on the number of chunks

\* The chunk lengths a buffer is split into.
ChunkLens ==
    {HOP_LENGTH \div 8, HOP_LENGTH \div 4, HOP_LENGTH, N_FFT - HOP_LENGTH,
     SAMPLES_PER_TOKEN}

BufLen(b) == b.hi - b.lo

\* combined[-n:] (all of combined when it is shorter than n)
LastSamples(b, n) == [lo |-> Max(b.lo, b.hi - n), hi |-> b.hi]

\* log_mel_spectrogram_step, lines 166-171: tail (or the left padding of a
\* first call) followed by the chunk.
Combined(chunkLen, tail) ==
    IF tail # None
    THEN [lo |-> tail.lo, hi |-> tail.hi + chunkLen]
    ELSE [lo |-> 0, hi |-> N_FFT \div 2 + chunkLen]

\* A variant of the tail that keeps the whole combined buffer.
NewTailKeepsAll(combined) == combined

\* log_mel_spectrogram_step, line 174
NewTail(combined) == LastSamples(combined, N_FFT - HOP_LENGTH)

\* log_mel_spectrogram_step, lines 183-186: the number of frames
StepFrameCount(combined) ==
    LET n_frames == 1 + (BufLen(combined) - N_FFT) \div HOP_LENGTH
    IN  IF n_frames <= 0 THEN 0 ELSE n_frames

\* log_mel_spectrogram_step, lines 188-191: frame j starts HOP_LENGTH * j
\* into combined.
StepFrames(combined) ==
    [j \in 1..StepFrameCount(combined) |-> combined.lo + (j - 1) * HOP_LENGTH]

\* log_mel_spectrogram, lines 111-133: the frames of the one-shot path over
\* n samples (padded by N_FFT / 2 on both sides, last frame dropped).
BatchFrames(n) ==
    LET n_frames == 1 + ((n + 2 * (N_FFT \div 2)) - N_FFT) \div HOP_LENGTH
    IN  [j \in 1..(n_frames - 1) |-> (j - 1) * HOP_LENGTH]

MelIdle ==
    /\ melFed = 0
    /\ melTail = None
    /\ melFrames = <<>>
    /\ melCalls = 0

MelInit == MelIdle

\* One call of log_mel_spectrogram_step with the next chunk of the buffer.
MelStep ==
    /\ melCalls < MaxMelCalls
    /\ \E c \in ChunkLens :
        /\ melFed + c <= MaxMelSamples
        /\ LET combined == Combined(c, melTail) IN
            /\ melFrames' = melFrames \o StepFrames(combined)
            /\ melTail' = NewTail(combined)
        /\ melFed' = melFed + c
    /\ melCalls' = melCalls + 1
    /\ UNCHANGED notMel

-----------------------------------------------------------------------------
(* The causal feature encoder, by frame counts (voxmlx/encoder.py,         *)
(* voxmlx/model.py).  An array of frames or embeddings is [n |-> length].  *)

\* downsample_factor, the 4 of SAMPLES_PER_TOKEN = hop * conv_stride * downsample
downsample_factor == 4

\* CausalConv1d(kernel_size=3): conv1 has stride 1, conv2 stride 2
kernel_size == 3
conv1_stride == 1
conv2_stride == 2

\* CausalConv1d.padding_total
PaddingTotal(stride) == kernel_size - stride

\* A variant that slides the kernel by one frame whatever the stride.
ConvOutLenUnitStride(inLen, stride) ==
    IF inLen < kernel_size THEN 0 ELSE inLen - kernel_size + 1

\* mx.conv1d(x, weight, stride): the number of output frames
ConvOutLen(inLen, stride) ==
    IF inLen < kernel_size THEN 0 ELSE (inLen - kernel_size) \div stride + 1

\* A stage's input: its tail, or the causal left padding on the first call,
\* followed by the new frames.
ConvInLen(n, tail, stride) ==
    (IF tail # None THEN tail.n ELSE PaddingTotal(stride)) + n

\* new[:, -padding_total:, :]
ConvTail(n, stride) == [n |-> Min(n, PaddingTotal(stride))]

\* forward_conv_step(new_mel, conv1_tail, conv2_tail) for n_mel new frames
ForwardConvStep(n_mel, conv1_tail, conv2_tail) ==
    LET x1 == ConvOutLen(ConvInLen(n_mel, conv1_tail, conv1_stride), conv1_stride)
        x2 == ConvOutLen(ConvInLen(x1, conv2_tail, conv2_stride), conv2_stride)
    IN  [x |-> x2,
         conv1_tail |-> ConvTail(n_mel, conv1_stride),
         conv2_tail |-> ConvTail(x1, conv2_stride)]

\* encode_step(new_mel, conv1_tail, conv2_tail, encoder_cache, ds_buf)
EncodeStep(n_mel, conv1_tail, conv2_tail, encoder_cache, ds_buf) ==
    LET conv == ForwardConvStep(n_mel, conv1_tail, conv2_tail)
        enc_cache == [n |-> (IF encoder_cache = None THEN 0 ELSE encoder_cache.n)
                            + conv.x]
        x == (IF ds_buf # None THEN ds_buf.n ELSE 0) + conv.x
        n_complete == (x \div downsample_factor) * downsample_factor
    IN  [new_embeds |-> IF n_complete = 0 THEN None
                        ELSE [n |-> n_complete \div downsample_factor],
         conv1_tail |-> conv.conv1_tail,
         conv2_tail |-> conv.conv2_tail,
         encoder_cache |-> enc_cache,
         ds_buf |-> IF n_complete = 0 THEN [n |-> x]
                    ELSE IF x > n_complete THEN [n |-> x - n_complete]
                    ELSE None]

-----------------------------------------------------------------------------
(* The streaming orchestrator (voxmlx/stream.py).                          *)

N_LEFT_PAD_TOKENS == 32
N_RIGHT_PAD_TOKENS == 17

\* _build_prompt_tokens: num_delay_tokens, and len(prompt_tokens) = BOS +
\* (n_left_pad_tokens + num_delay_tokens) STREAMING_PAD
num_delay_tokens == 6
prefix_len == 1 + (N_LEFT_PAD_TOKENS + num_delay_tokens)

\* Bound of the stream specification: capture callbacks in one run.
MaxBlocks == 18

\* A sampled token: the end-of-sequence token or a text token.
Token(isEos) == [eos |-> isEos]

\* The state before the main loop, and reset_all_state() with the cache = None
\* and y = None of decode_steps on end of sequence.
FreshStream(warned) ==
    [pending_audio |-> 0, audio_tail |-> None, conv1_tail |-> None,
     conv2_tail |-> None, encoder_cache |-> None, ds_buf |-> None,
     audio_embeds |-> None, n_audio_samples_fed |-> 0, n_total_decoded |-> 0,
     first_cycle |-> TRUE, prefilled |-> FALSE, cache |-> None, y |-> None,
     warned_no_audio |-> warned]

\* Lines 157-200: feed the whole tokens of pending_audio, after left_pad
\* samples of silence, through the frontend and the encoder.
Feed(s, left_pad) ==
    LET n_feed == (s.pending_audio \div SAMPLES_PER_TOKEN) * SAMPLES_PER_TOKEN
        combined == Combined(left_pad + n_feed, s.audio_tail)
        enc == EncodeStep(StepFrameCount(combined), s.conv1_tail, s.conv2_tail,
                          s.encoder_cache, s.ds_buf)
    IN  [s EXCEPT
            !.pending_audio = s.pending_audio - n_feed,
            !.n_audio_samples_fed = s.n_audio_samples_fed + n_feed,
            !.audio_tail = NewTail(combined),
            !.conv1_tail = enc.conv1_tail,
            !.conv2_tail = enc.conv2_tail,
            !.encoder_cache = enc.encoder_cache,
            !.ds_buf = enc.ds_buf,
            !.audio_embeds =
                IF enc.new_embeds = None THEN s.audio_embeds
                ELSE IF s.first_cycle \/ s.audio_embeds = None THEN enc.new_embeds
                ELSE [n |-> s.audio_embeds.n + enc.new_embeds.n],
            !.first_cycle = FALSE]

\* A variant of the encode step that prepends the left pad in every cycle.
EncodeNewAlwaysPadded(s) ==
    IF s.pending_audio < SAMPLES_PER_TOKEN THEN s
    ELSE Feed(s, N_LEFT_PAD_TOKENS * SAMPLES_PER_TOKEN)

\* Lines 156-200: the encode step of a cycle.
EncodeNew(s) ==
    IF s.pending_audio < SAMPLES_PER_TOKEN THEN s
    ELSE IF s.first_cycle THEN Feed(s, N_LEFT_PAD_TOKENS * SAMPLES_PER_TOKEN)
    ELSE Feed(s, 0)

\* Lines 207-209
SafeTotal(s) == N_LEFT_PAD_TOKENS + s.n_audio_samples_fed \div SAMPLES_PER_TOKEN

\* Lines 210-212 and 241-243
NDecodable(s) == Min(s.audio_embeds.n, SafeTotal(s) - s.n_total_decoded)

\* Lines 224-238: the prefill over the first prefix_len queued embeddings;
\* the token sampled from its logits is end-of-sequence or not.
Prefill(s, yEos) ==
    [s EXCEPT !.cache = [n |-> prefix_len],
              !.y = Token(yEos),
              !.audio_embeds = [n |-> Max(0, s.audio_embeds.n - prefix_len)],
              !.n_total_decoded = prefix_len,
              !.prefilled = TRUE]

\* decode_steps(embeds, n_to_decode).  firstEos names the first step whose
\* sampled token is end-of-sequence (0: none is).  The pending y is looked at
\* one step after it is sampled: end-of-sequence there returns (i, True) with
\* cache and y reset.
DecodeSteps(s, n_to_decode, firstEos) ==
    IF s.y.eos
    THEN [n_consumed |-> 0, hit_eos |-> TRUE, cache |-> None, y |-> None]
    ELSE IF firstEos \in 1..(n_to_decode - 1)
    THEN [n_consumed |-> firstEos, hit_eos |-> TRUE, cache |-> None, y |-> None]
    ELSE [n_consumed |-> n_to_decode, hit_eos |-> FALSE,
          cache |-> [n |-> s.cache.n + n_to_decode],
          y |-> Token(firstEos = n_to_decode)]

\* A variant of the decode step of a cycle that leaves out reset_all_state:
\* on end of sequence only decode_steps' own reset of cache and y happens.
DecodeNewWithoutReset(s, firstEos) ==
    LET d == DecodeSteps(s, NDecodable(s), firstEos)
    IN  [s EXCEPT
            !.cache = d.cache,
            !.y = d.y,
            !.n_total_decoded = s.n_total_decoded + d.n_consumed,
            !.audio_embeds = IF s.audio_embeds.n > d.n_consumed
                             THEN [n |-> s.audio_embeds.n - d.n_consumed]
                             ELSE None]

\* Lines 249-260: decode, trim the consumed embeddings, reset on end of
\* sequence.
DecodeNew(s, firstEos) ==
    LET d == DecodeSteps(s, NDecodable(s), firstEos)
    IN  IF d.hit_eos THEN FreshStream(s.warned_no_audio)
        ELSE [s EXCEPT
                !.cache = d.cache,
                !.y = d.y,
                !.n_total_decoded = s.n_total_decoded + d.n_consumed,
                !.audio_embeds = IF s.audio_embeds.n > d.n_consumed
                                 THEN [n |-> s.audio_embeds.n - d.n_consumed]
                                 ELSE None]

\* A variant of the rest of a cycle that runs the prefill as soon as an
\* embedding is decodable, without waiting for prefix_len of them.
DecodeCycleEagerPrefill(s, yEos, firstEos) ==
    IF s.audio_embeds = None THEN s
    ELSE IF NDecodable(s) <= 0 THEN s
    ELSE IF s.prefilled THEN DecodeNew(s, firstEos)
    ELSE LET p == Prefill(s, yEos)
         IN  IF NDecodable(p) <= 0 THEN p ELSE DecodeNew(p, firstEos)

\* Lines 202-262: the rest of a cycle once the new audio is encoded.
DecodeCycle(s, yEos, firstEos) ==
    IF s.audio_embeds = None THEN s
    ELSE IF NDecodable(s) <= 0 THEN s
    ELSE IF s.prefilled THEN DecodeNew(s, firstEos)
    ELSE IF s.n_total_decoded + s.audio_embeds.n < prefix_len THEN s
    ELSE LET p == Prefill(s, yEos)
         IN  IF NDecodable(p) <= 0 THEN p ELSE DecodeNew(p, firstEos)

\* Lines 134-262: one iteration of the main loop.  late: more than 2 s have
\* passed without audio.
CycleResult(s, new_audio, late, yEos, firstEos) ==
    LET drained == [s EXCEPT !.pending_audio = s.pending_audio + new_audio]
    IN  IF drained.first_cycle /\ drained.pending_audio < SAMPLES_PER_TOKEN
        THEN [drained EXCEPT !.warned_no_audio = s.warned_no_audio \/ late]
        ELSE DecodeCycle(EncodeNew(drained), yEos, firstEos)

\* len(audio_embeds), 0 for None
Queued(s) == IF s.audio_embeds = None THEN 0 ELSE s.audio_embeds.n

\* Lines 135-200: the locals after the drain and the encode step of a cycle.
Encoded(s, new_audio) ==
    LET drained == [s EXCEPT !.pending_audio = s.pending_audio + new_audio]
    IN  IF drained.first_cycle /\ drained.pending_audio < SAMPLES_PER_TOKEN
        THEN drained
        ELSE EncodeNew(drained)

\* The embeddings one decode_steps call passes to model.decode (lines
\* 52-53): the n_consumed it reports and, on end of sequence, embeds[i] of
\* the iteration that returns.
Decoded(d) == d.n_consumed + (IF d.hit_eos THEN 1 ELSE 0)

\* Lines 202-262: the embeddings the prefill and decode_steps of a cycle
\* take from the queue that the encode step left.
Taken(e, yEos, firstEos) ==
    IF e.audio_embeds = None THEN 0
    ELSE IF NDecodable(e) <= 0 THEN 0
    ELSE IF e.prefilled
    THEN Decoded(DecodeSteps(e, NDecodable(e), firstEos))
    ELSE IF e.n_total_decoded + e.audio_embeds.n < prefix_len THEN 0
    ELSE LET p == Prefill(e, yEos)
         IN  prefix_len +
             (IF NDecodable(p) <= 0 THEN 0
              ELSE Decoded(DecodeSteps(p, NDecodable(p), firstEos)))

\* Lines 202-222: a cycle whose encode step left the locals e runs the
\* prefill.
Prefills(e) ==
    /\ e.audio_embeds # None
    /\ NDecodable(e) > 0
    /\ ~e.prefilled
    /\ e.n_total_decoded + e.audio_embeds.n >= prefix_len

\* Lines 249-260: the cycle calls reset_all_state (decode_steps reported
\* the end of sequence).
Resets(e, yEos, firstEos) ==
    /\ e.audio_embeds # None
    /\ NDecodable(e) > 0
    /\ IF e.prefilled
       THEN DecodeSteps(e, NDecodable(e), firstEos).hit_eos
       ELSE /\ Prefills(e)
            /\ LET p == Prefill(e, yEos)
               IN  /\ NDecodable(p) > 0
                   /\ DecodeSteps(p, NDecodable(p), firstEos).hit_eos

NoLedger ==
    [drained |-> 0, fed |-> 0, produced |-> 0, decoded |-> 0,
     prefills |-> 0, resets |-> 0]

\* The ledger after one iteration of the main loop from locals s.
Tally(l, s, new_audio, yEos, firstEos) ==
    LET e == Encoded(s, new_audio)
    IN  [drained |-> l.drained + new_audio,
         fed |-> l.fed + (e.n_audio_samples_fed - s.n_audio_samples_fed),
         produced |-> l.produced + (Queued(e) - Queued(s)),
         decoded |-> l.decoded + Taken(e, yEos, firstEos),
         prefills |-> l.prefills + (IF Prefills(e) THEN 1 ELSE 0),
         resets |-> l.resets + (IF Resets(e, yEos, firstEos) THEN 1 ELSE 0)]

\* Before the main loop has ended.
NotStopped ==
    [stopped |-> FALSE, ran |-> FALSE, unfed |-> 0, queued |-> 0,
     n_consumed |-> 0, hit_eos |-> FALSE, y |-> None, printed |-> FALSE]

\* Lines 296-304: the last pending token is printed unless it is None or
\* the end-of-sequence token.
PrintsLast(y) == y # None /\ ~y.eos

\* Lines 264-305: the final flush from the locals s with final_audio
\* samples left in audio_buf.  unfed: captured samples that never entered
\* the frontend; queued: the embeddings handed to decode_steps; n_consumed
\* and hit_eos: what it returned; y: the pending token afterwards.
FinalFlush(s, final_audio, firstEos) ==
    IF s.cache # None /\ s.y # None
    THEN LET flush_chunk == s.pending_audio + final_audio
                               + N_RIGHT_PAD_TOKENS * SAMPLES_PER_TOKEN
             combined == Combined(flush_chunk, s.audio_tail)
             enc == EncodeStep(StepFrameCount(combined), s.conv1_tail,
                               s.conv2_tail, s.encoder_cache, s.ds_buf)
             n == Queued(s)
                    + (IF enc.new_embeds = None THEN 0 ELSE enc.new_embeds.n)
             d == IF n = 0
                  THEN [n_consumed |-> 0, hit_eos |-> FALSE, y |-> s.y]
                  ELSE DecodeSteps(s, n, firstEos)
         IN  [stopped |-> TRUE, ran |-> TRUE, unfed |-> 0, queued |-> n,
              n_consumed |-> d.n_consumed, hit_eos |-> d.hit_eos, y |-> d.y,
              printed |-> PrintsLast(d.y)]
    ELSE [stopped |-> TRUE, ran |-> FALSE,
          unfed |-> s.pending_audio + final_audio, queued |-> Queued(s),
          n_consumed |-> 0, hit_eos |-> FALSE, y |-> s.y,
          printed |-> PrintsLast(s.y)]

StreamIdle ==
    /\ audio_buf = 0
    /\ st = FreshStream(FALSE)
    /\ nBlocks = 0
    /\ ledger = NoLedger
    /\ flush = NotStopped

StreamInit == StreamIdle

\* callback(indata, frames, ...): the capture thread appends one block of
\* blocksize = SAMPLES_PER_TOKEN samples under the lock.
Callback ==
    /\ ~flush.stopped
    /\ nBlocks < MaxBlocks
    /\ audio_buf' = audio_buf + SAMPLES_PER_TOKEN
    /\ nBlocks' = nBlocks + 1
    /\ UNCHANGED <<st, ledger, flush, notStream>>

\* One iteration of the main loop; the swap of audio_buf is under the lock
\* and the rest touches only the loop's own state.
Cycle ==
    /\ ~flush.stopped
    /\ \E late \in BOOLEAN, yEos \in BOOLEAN, firstEos \in 0..MaxBlocks :
        /\ st' = CycleResult(st, audio_buf, late, yEos, firstEos)
        /\ ledger' = Tally(ledger, st, audio_buf, yEos, firstEos)
    /\ audio_buf' = 0
    /\ UNCHANGED <<nBlocks, flush, notStream>>

\* KeyboardInterrupt between two iterations of the main loop: the capture
\* stream is stopped and the finally block (lines 264-305) runs.
Stop ==
    /\ ~flush.stopped
    /\ \E firstEos \in 0..MaxBlocks :
        flush' = FinalFlush(st, audio_buf, firstEos)
    /\ audio_buf' = IF st.cache # None /\ st.y # None THEN 0 ELSE audio_buf
    /\ UNCHANGED <<st, nBlocks, ledger, notStream>>

-----------------------------------------------------------------------------
(* The STT worker (stt_port_worker.py): the foreground loop of main() and  *)
(* one partial_loop thread per start_session.  A `with lock:` block is two *)
(* steps, the acquisition and then its body with the release; send_packet  *)
(* is two steps, the write of the header and the write of the payload.     *)
(* Bytes of audio are named by the command that carried them.              *)

\* The main thread; partial_loop thread i is named i >= 1.
Foreground == 0

\* The session ids commands name.  The worker treats an id as an opaque
\* string, so the first id a run names is called "a".
SessionIds == {"a", "b"}

\* VOXMLX_MIN_CHUNKS_FOR_PARTIAL as the environment sets it (default 10):
\* low enough for partial results to occur within MaxCmds commands.
MIN_CHUNKS_FOR_PARTIAL == 1

\* Bounds of the worker specification.
MaxCmds == 4      \* frames read from the input channel
MaxStarts == 2    \* start_session commands among them
MaxOdd == 1       \* frames other than start_session, a well-formed
                  \* non-empty audio_chunk, stop_session, shutdown

\* What the next frame read can be.  "eof": the channel is closed.
\* "badjson": the payload is not JSON.  "nonobject": it is JSON, not an
\* object.  "nosid": an object without session_id whose cmd is not shutdown.
PlainKinds == {"start", "chunk", "stop"}
OddKinds == {"badjson", "nonobject", "nosid", "unknown", "chunk_empty", "chunk_bad64"}
EndKinds == {"shutdown", "eof"}
ChunkKinds == {"chunk", "chunk_empty", "chunk_bad64"}
SidKinds == PlainKinds \cup {"unknown", "chunk_empty", "chunk_bad64"}

\* An event on the wire; info is its text, message or (as "10") left empty.
Ev(event, sid, info, cc) ==
    [event |-> event, session_id |-> sid, info |-> info, chunk_count |-> cc]
NoEv == Ev("", "", "", 0)

\* The events counted per session id.
Counted == {"session_started", "partial", "final", "error"}
NoEvents == [name \in Counted \cup {"chunk_count", "regressions"} |-> 0]

\* The log of an id after the event ev was written whole for it.
LogEvent(log, ev) ==
    LET counted == [log EXCEPT ![ev.event] = @ + 1] IN
    IF ev.event = "partial"
    THEN [counted EXCEPT
            !["chunk_count"] = ev.chunk_count,
            !["regressions"] = @ + (IF ev.chunk_count < log["chunk_count"]
                                    THEN 1 ELSE 0)]
    ELSE counted

\* The commands read for an id are "none" while no command named it, "open"
\* after its start_session and any number of audio_chunk commands with
\* valid base64, "closed" after a stop_session that follows those, and
\* "mixed" after anything else.
NextScript(sc, kind) ==
    CASE sc = "open" /\ kind \in {"chunk", "chunk_empty"} -> "open"
      [] sc = "open" /\ kind = "stop" -> "closed"
      [] OTHER -> "mixed"

\* b"".join(chunks)
RECURSIVE Join(_)
Join(chunks) == IF chunks = <<>> THEN <<>> ELSE Head(chunks) \o Join(Tail(chunks))

\* The session dict built by start_session.
NewSession == [chunks |-> <<>>, chunk_count |-> 0, stop |-> FALSE, lock |-> {}]

\* The locals of a partial_loop thread at its start.
NewPoller(sid) ==
    [pc |-> "loop", session_id |-> sid, session |-> 0, last_seen_count |-> 0,
     snapshot |-> <<>>, out |-> NoEv, reported |-> {}]

\* The locals of main() before a frame is read.
IdleForeground ==
    [pc |-> "recv", kind |-> "", session_id |-> "", session |-> 0,
     pcm |-> <<>>, pcm_bytes |-> <<>>, out |-> NoEv, next |-> "recv"]

\* A variant of the lookup that finds some session whatever the id.
SessionsGetAny(table, sid) ==
    IF \E s \in SessionIds : table[s] # 0
    THEN table[CHOOSE s \in SessionIds : table[s] # 0]
    ELSE 0

\* sessions.get(session_id): the session object, 0 for None.
SessionsGet(table, sid) == table[sid]

\* send_packet, line 42: the header of the frame of event ev
HeaderPiece(t, ev) == [by |-> t, part |-> "header", ev |-> ev]
\* send_packet, lines 43-44: its payload
PayloadPiece(t, ev) == [by |-> t, part |-> "payload", ev |-> ev]

\* The foreground starts send_packet(ev) and continues at pc next after it.
FgSend(f, ev, next) == [f EXCEPT !.pc = "send_header", !.out = ev, !.next = next]

\* The worker with an empty session table and main() at f.
WorkerAt(f) ==
    /\ sessions = [s \in SessionIds |-> 0]
    /\ sess = <<>>
    /\ sessions_lock = {}
    /\ pollers = <<>>
    /\ fg = f
    /\ model_bundle = FALSE
    /\ inModel = {}
    /\ wire = <<>>
    /\ alive = TRUE
    /\ nCmds = 0
    /\ nOdd = 0
    /\ arrived = [s \in SessionIds |-> <<>>]
    /\ since = [s \in SessionIds |-> NoEvents]
    /\ script = [s \in SessionIds |-> "none"]
    /\ raised = [s \in SessionIds |-> FALSE]
    /\ atRecv = [sessions |-> [s \in SessionIds |-> 0], sess |-> <<>>]
    /\ fgSent = <<>>

\* A header immediately followed by its own payload.
IsFrame(h, p) == h.part = "header" /\ p.part = "payload" /\ h.by = p.by /\ h.ev = p.ev

\* sys.stdout.buffer.write(piece): the bytes follow what is on the channel;
\* the peer takes a whole frame at the front as soon as it is there.
WriteStdout(w, piece) ==
    LET written == Append(w, piece) IN
    IF Len(written) = 2 /\ IsFrame(written[1], written[2]) THEN <<>> ELSE written

\* A variant of the table update that points every id at the session.
SessionsPutAll(table, sid, session) == [s \in SessionIds |-> session]

\* sessions[session_id] = session
SessionsPut(table, sid, session) == [table EXCEPT ![sid] = session]

WorkerIdle == WorkerAt(IdleForeground)

\* main(), lines 144-147: empty table, and the ready event is sent before
\* the loop.
WorkerInit == WorkerAt(FgSend(IdleForeground, Ev("ready", "", "", 0), "recv"))

\* The chunks, chunk_count and stop flag of every session object.
SessionData == [i \in 1..Len(sess) |->
                  [chunks |-> sess[i].chunks, chunk_count |-> sess[i].chunk_count,
                   stop |-> sess[i].stop]]

\* Lines 150-169 and the dispatch on cmd: read one frame, of one of the
\* kinds and naming one of the ids given.
FgReads(kinds, sids) ==
    /\ alive /\ fg.pc = "recv"
    /\ \E kind \in kinds, sid \in sids :
        /\ kind \in OddKinds => nOdd < MaxOdd
        /\ kind = "start" => Len(sess) < MaxStarts
        /\ kind \notin SidKinds => sid = "a"
        /\ script["a"] = "none" => sid = "a"
        /\ LET f == [IdleForeground EXCEPT
                        !.kind = kind,
                        !.session_id = IF kind \in SidKinds THEN sid ELSE "",
                        !.pcm = IF kind = "chunk"
                                THEN <<[to |-> sid, cmd |-> nCmds + 1]>>
                                ELSE <<>>]
           IN  fg' = CASE kind = "eof" -> [f EXCEPT !.pc = "returned"]
                       [] kind = "badjson" ->
                            FgSend(f, Ev("error", "", "invalid json", 0), "recv")
                       [] kind = "nonobject" -> [f EXCEPT !.pc = "crashed"]
                       [] kind = "shutdown" ->
                            FgSend(f, Ev("bye", "", "", 0), "returned")
                       [] kind = "nosid" ->
                            FgSend(f, Ev("error", "", "missing session_id", 0), "recv")
                       [] kind = "start" -> [f EXCEPT !.pc = "start_lock"]
                       [] kind \in ChunkKinds -> [f EXCEPT !.pc = "chunk_lock"]
                       [] kind = "stop" -> [f EXCEPT !.pc = "stop_lock"]
                       [] kind = "unknown" ->
                            FgSend(f, Ev("error", sid, "unknown cmd", 0), "recv")
        /\ nOdd' = IF kind \in OddKinds THEN nOdd + 1 ELSE nOdd
        /\ arrived' = IF kind \in {"chunk", "chunk_empty"} /\ sessions[sid] # 0
                      THEN [arrived EXCEPT ![sid] = Append(@,
                                IF kind = "chunk"
                                THEN <<[to |-> sid, cmd |-> nCmds + 1]>> ELSE <<>>)]
                      ELSE arrived
        /\ script' = IF kind \in SidKinds
                     THEN [script EXCEPT ![sid] = NextScript(@, kind)]
                     ELSE script
    /\ nCmds' = nCmds + 1
    /\ atRecv' = [sessions |-> sessions, sess |-> SessionData]
    /\ fgSent' = <<>>
    /\ UNCHANGED <<sessions, sess, sessions_lock, pollers, model_bundle,
                   inModel, wire, alive, since, raised, notWorker>>

\* Lines 150-169 and the dispatch on cmd: read one frame.
FgRecv ==
    /\ nCmds < MaxCmds
    /\ FgReads(PlainKinds \cup OddKinds \cup EndKinds, SessionIds)

\* What the foreground leaves alone apart from fg and what an action names.
fgGhosts == <<nCmds, nOdd, arrived, script, atRecv>>

\* The event ev has been written whole: the ghost logs of it.
Logged(t, ev) ==
    /\ since' = IF ev.session_id \in SessionIds
                THEN [since EXCEPT ![ev.session_id] = LogEvent(@, ev)]
                ELSE since
    /\ fgSent' = IF t = Foreground THEN Append(fgSent, ev) ELSE fgSent

\* send_packet, line 42, in the foreground
FgWriteHeader ==
    /\ alive /\ fg.pc = "send_header"
    /\ wire' = WriteStdout(wire, HeaderPiece(Foreground, fg.out))
    /\ fg' = [fg EXCEPT !.pc = "send_payload"]
    /\ UNCHANGED <<sessions, sess, sessions_lock, pollers, model_bundle, inModel,
                   alive, fgGhosts, since, raised, fgSent, notWorker>>

\* send_packet, lines 43-44, in the foreground
FgWritePayload ==
    /\ alive /\ fg.pc = "send_payload"
    /\ wire' = WriteStdout(wire, PayloadPiece(Foreground, fg.out))
    /\ fg' = [fg EXCEPT !.pc = fg.next]
    /\ Logged(Foreground, fg.out)
    /\ UNCHANGED <<sessions, sess, sessions_lock, pollers, model_bundle, inModel,
                   alive, fgGhosts, raised, notWorker>>

\* `with sessions_lock:` at lines 172, 192, 210 and 232: the acquisition
FgLockTable ==
    /\ alive /\ fg.pc \in {"start_lock", "chunk_lock", "stop_lock", "pop_lock"}
    /\ sessions_lock = {}
    /\ sessions_lock' = {Foreground}
    /\ fg' = [fg EXCEPT !.pc = CASE fg.pc = "start_lock" -> "start_body"
                                 [] fg.pc = "chunk_lock" -> "chunk_get"
                                 [] fg.pc = "stop_lock" -> "stop_get"
                                 [] fg.pc = "pop_lock" -> "pop_body"]
    /\ UNCHANGED <<sessions, sess, pollers, model_bundle, inModel, wire, alive,
                   fgGhosts, since, raised, fgSent, notWorker>>

\* start_session, lines 173-189: the new session replaces any entry of the
\* id, and its partial_loop thread starts.
StartSession ==
    /\ alive /\ fg.pc = "start_body"
    /\ sess' = Append(sess, NewSession)
    /\ sessions' = SessionsPut(sessions, fg.session_id, Len(sess) + 1)
    /\ pollers' = Append(pollers, NewPoller(fg.session_id))
    /\ sessions_lock' = {}
    /\ fg' = FgSend(fg, Ev("session_started", fg.session_id, "", 0), "recv")
    /\ arrived' = [arrived EXCEPT ![fg.session_id] = <<>>]
    /\ script' = [script EXCEPT ![fg.session_id] = "open"]
    /\ since' = [since EXCEPT ![fg.session_id] = NoEvents]
    /\ UNCHANGED <<model_bundle, inModel, wire, alive, nCmds, nOdd, atRecv,
                   raised, fgSent, notWorker>>

\* audio_chunk, lines 192-203: the lookup, then base64.b64decode
ChunkGet ==
    /\ alive /\ fg.pc = "chunk_get"
    /\ sessions_lock' = {}
    /\ LET session == SessionsGet(sessions, fg.session_id) IN
       fg' = IF session = 0
             THEN FgSend(fg, Ev("error", fg.session_id, "unknown session", 0), "recv")
             ELSE IF fg.kind = "chunk_bad64"
             THEN FgSend(fg, Ev("error", fg.session_id, "invalid base64", 0), "recv")
             ELSE [fg EXCEPT !.session = session, !.pc = "chunk_lock_session"]
    /\ UNCHANGED <<sessions, sess, pollers, model_bundle, inModel, wire, alive,
                   fgGhosts, since, raised, fgSent, notWorker>>

\* A variant in which leaving the block leaves the lock held.
ReleaseNever(holders, t) == holders

\* The end of a `with session["lock"]:` block of thread t.
Release(holders, t) == holders \ {t}

\* `with session["lock"]:` at lines 205 and 216: the acquisition
FgLockSession ==
    /\ alive /\ fg.pc \in {"chunk_lock_session", "stop_lock_session"}
    /\ sess[fg.session].lock = {}
    /\ sess' = [sess EXCEPT ![fg.session].lock = {Foreground}]
    /\ fg' = [fg EXCEPT !.pc = IF fg.pc = "chunk_lock_session"
                               THEN "chunk_append" ELSE "stop_body"]
    /\ UNCHANGED <<sessions, sessions_lock, pollers, model_bundle, inModel, wire,
                   alive, fgGhosts, since, raised, fgSent, notWorker>>

\* A variant that puts the new chunk first.
AppendChunkFirst(chunks, pcm) == <<pcm>> \o chunks

\* session["chunks"].append(pcm)
AppendChunk(chunks, pcm) == Append(chunks, pcm)

\* audio_chunk, lines 206-207
ChunkAppend ==
    /\ alive /\ fg.pc = "chunk_append"
    /\ sess' = [sess EXCEPT ![fg.session] =
                    [@ EXCEPT !.chunks = AppendChunk(@, fg.pcm),
                              !.chunk_count = @ + 1,
                              !.lock = Release(@, Foreground)]]
    /\ fg' = [fg EXCEPT !.pc = "recv"]
    /\ UNCHANGED <<sessions, sessions_lock, pollers, model_bundle, inModel, wire,
                   alive, fgGhosts, since, raised, fgSent, notWorker>>

\* stop_session, lines 210-214
StopGet ==
    /\ alive /\ fg.pc = "stop_get"
    /\ sessions_lock' = {}
    /\ LET session == SessionsGet(sessions, fg.session_id) IN
       fg' = IF session = 0
             THEN FgSend(fg, Ev("error", fg.session_id, "unknown session", 0), "recv")
             ELSE [fg EXCEPT !.session = session, !.pc = "stop_lock_session"]
    /\ UNCHANGED <<sessions, sess, pollers, model_bundle, inModel, wire, alive,
                   fgGhosts, since, raised, fgSent, notWorker>>

\* stop_session, lines 217-221: set the flag and join the chunks;
\* transcribe_pcm_bytes returns "" at once for no bytes, and otherwise
\* takes the model bundle (loading it under _model_lock on first use) and
\* enters generate.
StopBody ==
    /\ alive /\ fg.pc = "stop_body"
    /\ sess' = [sess EXCEPT ![fg.session] = [@ EXCEPT !.stop = TRUE,
                              !.lock = Release(@, Foreground)]]
    /\ LET pcm_bytes == Join(sess[fg.session].chunks) IN
       IF pcm_bytes = <<>>
       THEN /\ fg' = FgSend([fg EXCEPT !.pcm_bytes = pcm_bytes],
                            Ev("final", fg.session_id, "", 0), "pop_lock")
            /\ UNCHANGED <<model_bundle, inModel>>
       ELSE /\ fg' = [fg EXCEPT !.pcm_bytes = pcm_bytes, !.pc = "stop_generate"]
            /\ model_bundle' = TRUE
            /\ inModel' = inModel \cup {Foreground}
    /\ UNCHANGED <<sessions, sessions_lock, pollers, wire, alive, fgGhosts,
                   since, raised, fgSent, notWorker>>

\* stop_session, lines 221-230: generate returns a text (possibly empty)
\* or raises.
StopGenerated ==
    /\ alive /\ fg.pc = "stop_generate"
    /\ inModel' = inModel \ {Foreground}
    /\ \E outcome \in {"text", "", "raise"} :
        /\ fg' = IF outcome = "raise"
                 THEN FgSend(fg, Ev("error", fg.session_id,
                                    "final transcribe failed", 0), "pop_lock")
                 ELSE FgSend(fg, Ev("final", fg.session_id, outcome, 0), "pop_lock")
        /\ raised' = IF outcome = "raise"
                     THEN [raised EXCEPT ![fg.session_id] = TRUE] ELSE raised
    /\ UNCHANGED <<sessions, sess, sessions_lock, pollers, model_bundle, wire,
                   alive, fgGhosts, since, fgSent, notWorker>>

\* A variant of the removal that leaves the entry in the table.
SessionsPopNothing(table, sid) == table

\* sessions.pop(session_id, None)
SessionsPop(table, sid) == [table EXCEPT ![sid] = 0]

\* stop_session, lines 232-233: sessions.pop(session_id, None)
StopPop ==
    /\ alive /\ fg.pc = "pop_body"
    /\ sessions' = SessionsPop(sessions, fg.session_id)
    /\ sessions_lock' = {}
    /\ fg' = [fg EXCEPT !.pc = "recv"]
    /\ UNCHANGED <<sess, pollers, model_bundle, inModel, wire, alive, fgGhosts,
                   since, raised, fgSent, notWorker>>

\* main() has returned (shutdown, closed channel) or died of an uncaught
\* exception: the process ends, and its daemon threads with it, at some
\* later moment.
ProcessExit ==
    /\ alive /\ fg.pc \in {"returned", "crashed"}
    /\ alive' = FALSE
    /\ UNCHANGED <<sessions, sess, sessions_lock, pollers, fg, model_bundle,
                   inModel, wire, fgGhosts, since, raised, fgSent, notWorker>>

-----------------------------------------------------------------------------
(* partial_loop(session_id, sessions, sessions_lock), thread i.            *)

pollerGhosts == <<nCmds, nOdd, arrived, script, atRecv, fgSent>>

\* A variant in which the thread lets go of the table lock after the lookup.
TableLockDropped(i) == {}

\* Lines 104-109: the block on the session is nested in the block on the
\* table, so thread i holds the table lock on after its lookup.
TableLockKept(i) == {i}

\* Lines 104-107: take the table lock and look the session up.
PollLockTable == \E i \in 1..Len(pollers) :
    /\ alive /\ pollers[i].pc = "loop"
    /\ sessions_lock = {}
    /\ LET session == SessionsGet(sessions, pollers[i].session_id) IN
       IF session = 0
       THEN /\ pollers' = [pollers EXCEPT ![i].pc = "done"]
            /\ UNCHANGED sessions_lock
       ELSE /\ pollers' = [pollers EXCEPT ![i].pc = "lock_session",
                                          ![i].session = session]
            /\ sessions_lock' = TableLockKept(i)
    /\ UNCHANGED <<sessions, sess, fg, model_bundle, inModel, wire, alive,
                   pollerGhosts, since, raised, notWorker>>

\* Line 109: take the session's lock, the table lock held.
PollLockSession == \E i \in 1..Len(pollers) :
    /\ alive /\ pollers[i].pc = "lock_session"
    /\ sess[pollers[i].session].lock = {}
    /\ sess' = [sess EXCEPT ![pollers[i].session].lock = {i}]
    /\ pollers' = [pollers EXCEPT ![i].pc = "snapshot"]
    /\ UNCHANGED <<sessions, sessions_lock, fg, model_bundle, inModel, wire,
                   alive, pollerGhosts, since, raised, notWorker>>

\* A variant in which the thread does not see the flag.
StopRequestedNever(session) == FALSE

\* Line 110: session["stop"]
StopRequested(session) == session.stop

\* Lines 110-119: return on the stop flag, else snapshot the chunks when
\* there are new ones and enough of them; both locks are released.  With a
\* non-empty snapshot transcribe_pcm_bytes enters generate; otherwise the
\* thread sleeps and loops.
PollSnapshot == \E i \in 1..Len(pollers) :
    /\ alive /\ pollers[i].pc = "snapshot"
    /\ LET p == pollers[i]
           s == sess[p.session]
           take == ~(s.chunk_count = p.last_seen_count
                     \/ s.chunk_count < MIN_CHUNKS_FOR_PARTIAL)
           snapshot == IF take THEN Join(s.chunks) ELSE <<>>
       IN  /\ pollers' = [pollers EXCEPT ![i] =
                IF StopRequested(s) THEN [p EXCEPT !.pc = "done"]
                ELSE [p EXCEPT !.snapshot = snapshot,
                               !.last_seen_count =
                                    IF take THEN s.chunk_count ELSE @,
                               !.pc = IF snapshot # <<>> THEN "generate"
                                      ELSE "loop"]]
           /\ IF ~StopRequested(s) /\ snapshot # <<>>
              THEN model_bundle' = TRUE /\ inModel' = inModel \cup {i}
              ELSE UNCHANGED <<model_bundle, inModel>>
           /\ sess' = [sess EXCEPT ![p.session].lock = Release(@, i)]
    /\ sessions_lock' = {}
    /\ UNCHANGED <<sessions, fg, wire, alive, pollerGhosts, since, raised,
                   notWorker>>

\* A variant in which the exception is not caught and ends the thread.
PartialFailedUncaught(p) == [p EXCEPT !.pc = "done"]

\* Lines 131-138: the except branch of a poll sends an error event.
PartialFailed(p) ==
    [p EXCEPT !.pc = "send_header",
              !.out = Ev("error", p.session_id, "partial transcribe failed", 0)]

\* Lines 121-138: generate returns a text (possibly empty) or raises.
PollGenerated == \E i \in 1..Len(pollers) :
    /\ alive /\ pollers[i].pc = "generate"
    /\ inModel' = inModel \ {i}
    /\ \E outcome \in {"text", "", "raise"} :
        LET p == pollers[i] IN
        /\ pollers' = [pollers EXCEPT ![i] =
              CASE outcome = "text" ->
                     [p EXCEPT !.pc = "send_header",
                               !.out = Ev("partial", p.session_id, "text",
                                          p.last_seen_count)]
                [] outcome = "" -> [p EXCEPT !.pc = "loop"]
                [] outcome = "raise" -> PartialFailed(p)]
        /\ raised' = IF outcome = "raise"
                     THEN [raised EXCEPT ![p.session_id] = TRUE] ELSE raised
    /\ UNCHANGED <<sessions, sess, sessions_lock, fg, model_bundle, wire, alive,
                   pollerGhosts, since, notWorker>>

\* send_packet, line 42, in thread i
PollWriteHeader == \E i \in 1..Len(pollers) :
    /\ alive /\ pollers[i].pc = "send_header"
    /\ wire' = WriteStdout(wire, HeaderPiece(i, pollers[i].out))
    /\ pollers' = [pollers EXCEPT ![i].pc = "send_payload"]
    /\ UNCHANGED <<sessions, sess, sessions_lock, fg, model_bundle, inModel,
                   alive, pollerGhosts, since, raised, notWorker>>

\* The chunk_count values of the partial events thread p has sent, the
\* event it is sending included.
Reported(p) ==
    IF p.out.event = "partial" THEN p.reported \cup {p.out.chunk_count}
    ELSE p.reported

\* send_packet, lines 43-44, in thread i; then the sleep of line 140
PollWritePayload == \E i \in 1..Len(pollers) :
    /\ alive /\ pollers[i].pc = "send_payload"
    /\ wire' = WriteStdout(wire, PayloadPiece(i, pollers[i].out))
    /\ pollers' = [pollers EXCEPT ![i].pc = "loop",
                                  ![i].reported = Reported(pollers[i])]
    /\ since' = [since EXCEPT ![pollers[i].out.session_id] =
                                LogEvent(@, pollers[i].out)]
    /\ UNCHANGED <<sessions, sess, sessions_lock, fg, model_bundle, inModel,
                   alive, pollerGhosts, raised, notWorker>>

-----------------------------------------------------------------------------
(* recv_packet of stt_port_worker.py and tts_port_worker.py (the two copies *)
(* are identical) and what main() does with its result.  The input channel  *)
(* is a finite sequence of bytes followed by end of file.                   *)

\* Bounds of the framing specification.
MaxByte == 2    \* bytes take the values 0..MaxByte
MaxStdin == 6   \* bytes on the input channel before it closes

\* The byte strings of at most n bytes.
ByteStrings(n) == UNION {[1..k -> 0..MaxByte] : k \in 0..n}

\* sys.stdin.buffer.read(n): up to n bytes, fewer only at end of file.
Read(stream, n) == PySlice(stream, 0, n)
AfterRead(stream, n) == PySlice(stream, n, Len(stream))

\* struct.unpack(">I", header)[0]
UnpackLength(header) ==
    ((header[1] * 256 + header[2]) * 256 + header[3]) * 256 + header[4]

\* recv_packet, lines 27-37: the value returned (None, or the payload
\* bytes) and the input that is left.
RecvPacket(stream) ==
    LET header == Read(stream, 4)
        afterHeader == AfterRead(stream, 4)
    IN  IF Len(header) < 4
        THEN [payload |-> None, rest |-> afterHeader]
        ELSE LET length == UnpackLength(header) IN
             IF length = 0
             THEN [payload |-> [bytes |-> <<>>], rest |-> afterHeader]
             ELSE LET payload == Read(afterHeader, length) IN
                  IF Len(payload) < length
                  THEN [payload |-> None,
                        rest |-> AfterRead(afterHeader, length)]
                  ELSE [payload |-> [bytes |-> payload],
                        rest |-> AfterRead(afterHeader, length)]

\* A variant of the test below that takes an empty payload for the end.
ChannelClosedOrEmpty(payload) == payload = None \/ payload = [bytes |-> <<>>]

\* main(), line 151: payload is None
ChannelClosed(payload) == payload = None

\* What main() does with a non-empty payload: it answers and reads on, it
\* answers bye to a shutdown and leaves the loop, or it dies of the
\* exception of line 160.
PayloadOutcomes == {"continue", "bye", "crash"}

RecvIdle ==
    /\ stdin = <<>>
    /\ rx = [loop |-> "idle", n |-> 0, input |-> <<>>, payload |-> None,
             sent |-> <<>>]

RecvInit ==
    /\ stdin \in ByteStrings(MaxStdin)
    /\ rx = [loop |-> "running", n |-> 0, input |-> <<>>, payload |-> None,
             sent |-> <<>>]

\* main(), lines 150-165: one pass of the loop, from recv_packet to the
\* continue or break.  An empty payload is not JSON: json.loads raises and
\* the 'invalid json' error is sent.
RecvLoop ==
    /\ rx.loop = "running"
    /\ LET r == RecvPacket(stdin) IN
       /\ stdin' = r.rest
       /\ \E outcome \in PayloadOutcomes :
            rx' = IF ChannelClosed(r.payload)
                  THEN [loop |-> "ended", n |-> rx.n + 1, input |-> stdin,
                        payload |-> r.payload, sent |-> <<>>]
                  ELSE IF r.payload.bytes = <<>> \/ outcome = "continue"
                  THEN [loop |-> "running", n |-> rx.n + 1, input |-> stdin,
                        payload |-> r.payload,
                        sent |-> IF r.payload.bytes = <<>>
                                 THEN <<"error">> ELSE <<"reply">>]
                  ELSE IF outcome = "bye"
                  THEN [loop |-> "ended", n |-> rx.n + 1, input |-> stdin,
                        payload |-> r.payload, sent |-> <<"bye">>]
                  ELSE [loop |-> "crashed", n |-> rx.n + 1, input |-> stdin,
                        payload |-> r.payload, sent |-> <<>>]
    /\ UNCHANGED notRecv

-----------------------------------------------------------------------------
(* The decode loops over token ids: generate (voxmlx/generate.py) and the  *)
(* decode_steps and final flush of stream_transcribe (voxmlx/stream.py).   *)
(* What the model samples is free: every sampled token is any token id.    *)

\* generate.py, line 14: the default of eos_token_id
eos_token_id == 2

\* Token ids: two text tokens and the end-of-sequence token.
TokenIds == {0, 1, eos_token_id}

\* Bound of the decode specification: tokens sampled in one run.
MaxSamples == 4

\* A variant of the test below that never sees the end of sequence.
IsEosNever(token_id) == FALSE

\* token_id == eos_token_id
IsEos(token_id) == token_id = eos_token_id

\* generate, lines 62-74: samples[k] is the pending y of iteration k (the
\* prefill's sample for k = 1, the next_y of iteration k - 1 after that);
\* n is len(range(prefix_len, N_audio)).
RECURSIVE GenerateLoop(_, _, _, _)
GenerateLoop(samples, k, n, output_tokens) ==
    IF k > n THEN output_tokens
    ELSE IF IsEos(samples[k]) THEN output_tokens
    ELSE GenerateLoop(samples, k + 1, n, Append(output_tokens, samples[k]))

\* generate, lines 62-74: the iterations of the loop that are entered from
\* iteration k on.
RECURSIVE LoopIterations(_, _, _)
LoopIterations(samples, k, n) ==
    IF k > n THEN 0
    ELSE IF IsEos(samples[k]) THEN 1
    ELSE 1 + LoopIterations(samples, k + 1, n)

\* A variant of the check below that drops the last token whatever it is.
CheckLastTokenAlwaysDrops(output_tokens) ==
    PySlice(output_tokens, 0, Len(output_tokens) - 1)

\* generate, lines 76-78
CheckLastToken(output_tokens) ==
    IF output_tokens # <<>> /\ output_tokens[Len(output_tokens)] = eos_token_id
    THEN PySlice(output_tokens, 0, Len(output_tokens) - 1)
    ELSE output_tokens

\* generate, lines 61-80
generate(samples, n) == CheckLastToken(GenerateLoop(samples, 1, n, <<>>))

\* A sampled token held in y; y.item() is its token_id.
Sampled(token_id) == [token_id |-> token_id]

\* decode_steps, lines 50-74, from iteration i on (counted from 0): y is
\* the pending token and next[i + 1] the next_y sampled in iteration i.
RECURSIVE DecodeStepsLoop(_, _, _, _, _)
DecodeStepsLoop(y, next, i, n_to_decode, printed) ==
    IF i >= n_to_decode
    THEN [n_consumed |-> n_to_decode, hit_eos |-> FALSE, cache |-> TRUE,
          y |-> y, printed |-> printed, drawn |-> i]
    ELSE IF IsEos(y.token_id)
    THEN [n_consumed |-> i, hit_eos |-> TRUE, cache |-> FALSE, y |-> None,
          printed |-> printed, drawn |-> i + 1]
    ELSE DecodeStepsLoop(Sampled(next[i + 1]), next, i + 1, n_to_decode,
                         Append(printed, y.token_id))

\* decode_steps(embeds, n_to_decode): what it returns, the cache (held or
\* None) and y it leaves, the tokens it prints and how many it sampled.
decode_steps(y, next, n_to_decode) ==
    DecodeStepsLoop(y, next, 0, n_to_decode, <<>>)

\* stream_transcribe, lines 297-304: the tokens the last flush prints.
FlushLastPending(y) ==
    IF y # None /\ ~IsEos(y.token_id) THEN <<y.token_id>> ELSE <<>>

NoTokens == [pc |-> "idle", cache |-> FALSE, y |-> None, sampled |-> <<>>,
             printed |-> <<>>]

DecodeIdle ==
    /\ gen = [samples |-> <<>>, n |-> 0, output_tokens |-> <<>>,
              iterations |-> 0]
    /\ tok = NoTokens

\* Before any call of generate, and stream_transcribe entering its loop
\* (lines 86-87: cache = None, y = None).
DecodeInit ==
    /\ gen = [samples |-> <<>>, n |-> 0, output_tokens |-> <<>>,
              iterations |-> 0]
    /\ tok = [NoTokens EXCEPT !.pc = "listening"]

\* The call of generate, over n positions after the prefix.
GenerateCall ==
    /\ gen.samples = <<>>
    /\ \E n \in 0..(MaxSamples - 1) : \E samples \in [1..(n + 1) -> TokenIds] :
        gen' = [samples |-> samples, n |-> n,
                output_tokens |-> generate(samples, n),
                iterations |-> LoopIterations(samples, 1, n)]
    /\ UNCHANGED <<tok, notDecode>>

\* Lines 218-238: the prefill of a cycle makes the cache and samples y.
TokPrefill ==
    /\ tok.pc = "listening"
    /\ tok.y = None
    /\ Len(tok.sampled) < MaxSamples
    /\ \E t \in TokenIds :
        tok' = [tok EXCEPT !.cache = TRUE, !.y = Sampled(t),
                           !.sampled = Append(tok.sampled, t)]
    /\ UNCHANGED <<gen, notDecode>>

\* Line 250: the decode_steps of a cycle over n_decodable > 0 positions.
TokDecodeSteps ==
    /\ tok.pc = "listening"
    /\ tok.y # None
    /\ \E n \in 1..(MaxSamples - Len(tok.sampled)) :
       \E next \in [1..n -> TokenIds] :
         LET d == decode_steps(tok.y, next, n) IN
         tok' = [tok EXCEPT
                    !.cache = d.cache,
                    !.y = d.y,
                    !.sampled = tok.sampled \o PySlice(next, 0, d.drawn),
                    !.printed = tok.printed \o d.printed]
    /\ UNCHANGED <<gen, notDecode>>

\* KeyboardInterrupt inside an iteration of decode_steps: after line 60
\* (cache is None, y still holds the end-of-sequence token) or after the
\* print of line 67 (y still holds the token printed).
TokInterrupted ==
    /\ tok.pc = "listening"
    /\ tok.y # None
    /\ Len(tok.sampled) < MaxSamples
    /\ \E t \in TokenIds :
        tok' = IF IsEos(tok.y.token_id)
               THEN [tok EXCEPT !.pc = "finally", !.cache = FALSE,
                                !.sampled = Append(tok.sampled, t)]
               ELSE [tok EXCEPT !.pc = "finally",
                                !.sampled = Append(tok.sampled, t),
                                !.printed = Append(tok.printed,
                                                   tok.y.token_id)]
    /\ UNCHANGED <<gen, notDecode>>

\* Lines 264-305: KeyboardInterrupt between iterations, or the finally
\* block after one inside: with a cache and a pending token, decode_steps
\* over the n positions left; then the flush of the last pending token.
TokFlush ==
    /\ tok.pc \in {"listening", "finally"}
    /\ \E n \in 0..(MaxSamples - Len(tok.sampled)) :
       \E next \in [1..n -> TokenIds] :
         LET d == IF tok.cache /\ tok.y # None
                  THEN decode_steps(tok.y, next, n)
                  ELSE [y |-> tok.y, cache |-> tok.cache, printed |-> <<>>,
                        drawn |-> 0]
         IN
         tok' = [pc |-> "done", cache |-> d.cache, y |-> d.y,
                 sampled |-> tok.sampled \o PySlice(next, 0, d.drawn),
                 printed |-> tok.printed \o d.printed \o FlushLastPending(d.y)]
    /\ UNCHANGED <<gen, notDecode>>

-----------------------------------------------------------------------------
(* The TTS worker (tts_port_worker.py): the loop of main().  It has one    *)
(* thread; every handler runs to its continue or break, and the streaming  *)
(* of speak_text is one step per packet.  The reader of the output channel *)
(* may go away at any moment; from then on every write raises.             *)

\* Bounds of the TTS specification.
MaxTtsCmds == 3     \* frames read from the input channel
MaxChunks == 2      \* chunks one generate_stream yields

\* What a speak_text carries after line 92: the stripped text is empty or
\* not, and float(speed) of line 98 succeeds or raises.
Texts == {"", "hi"}
Speeds == {"number", "notnumber"}

TtsEv(event, sid, seq, message) ==
    [event |-> event, session_id |-> sid, seq |-> seq, message |-> message]

\* The loop before main() runs.
NoCommand ==
    [pc |-> "idle", cmd |-> "", session_id |-> "", known |-> FALSE,
     text |-> "", seq |-> 0, left |-> 0, fails |-> FALSE, exc |-> ""]

\* The loop with a frame read and parsed: cmd and session_id of lines
\* 66-67, and whether session_id is in sessions as the handler starts.
Command(cmd, sid) ==
    [NoCommand EXCEPT !.pc = "recv", !.cmd = cmd, !.session_id = sid,
                      !.known = sid \in tts_sessions]

\* The loop left by an exception that nothing catches.
Raised(t, exc) == [t EXCEPT !.pc = "raised", !.exc = exc]

\* send_packet, lines 25-29, called with the loop at t and `sent` written
\* so far: the event is written and the loop goes on as `after`, or the
\* write to a channel nobody reads raises BrokenPipeError, which no caller
\* catches (the handler of line 117 catches it and raises it again from
\* its own send_packet).
SendPacket(t, sent, ev, after) ==
    /\ tts' = IF peer = "gone" THEN Raised(t, "BrokenPipeError") ELSE after
    /\ tts_sent' = IF peer = "gone" THEN sent ELSE Append(sent, ev)

TtsIdle ==
    /\ tts = NoCommand
    /\ tts_sessions = {}
    /\ tts_sent = <<>>
    /\ peer = "open"
    /\ nTts = 0

\* main() at line 53, about to send ready.
TtsInit ==
    /\ tts = [NoCommand EXCEPT !.pc = "ready"]
    /\ tts_sessions = {}
    /\ tts_sent = <<>>
    /\ peer = "open"
    /\ nTts = 0

\* The peer closes its end of the output channel.
PeerGone ==
    /\ tts.pc \in {"ready", "recv", "speaking"}
    /\ peer = "open"
    /\ peer' = "gone"
    /\ UNCHANGED <<tts, tts_sessions, tts_sent, nTts, notTts>>

\* Line 53
TtsReady ==
    /\ tts.pc = "ready"
    /\ SendPacket(tts, <<>>, TtsEv("ready", "", 0, ""),
                  [tts EXCEPT !.pc = "recv"])
    /\ UNCHANGED <<tts_sessions, peer, nTts, notTts>>

\* A frame can be read: the loop is at recv_packet and the input goes on.
TtsReads ==
    /\ tts.pc = "recv"
    /\ nTts < MaxTtsCmds

\* Lines 56-58: recv_packet returns None.
TtsEof ==
    /\ tts.pc = "recv"
    /\ tts' = [Command("eof", "") EXCEPT !.pc = "returned"]
    /\ tts_sent' = <<>>
    /\ UNCHANGED <<tts_sessions, peer, nTts, notTts>>

\* Lines 60-64: the payload is not UTF-8 or not JSON.
TtsInvalidJson ==
    /\ TtsReads
    /\ nTts' = nTts + 1
    /\ SendPacket(Command("badjson", ""), <<>>,
                  TtsEv("error", "", 0, "invalid json"),
                  Command("badjson", ""))
    /\ UNCHANGED <<tts_sessions, peer, notTts>>

\* Line 66: the payload is JSON but not an object, msg.get raises.
TtsNotAnObject ==
    /\ TtsReads
    /\ nTts' = nTts + 1
    /\ tts' = Raised(Command("nonobject", ""), "AttributeError")
    /\ tts_sent' = <<>>
    /\ UNCHANGED <<tts_sessions, peer, notTts>>

\* Lines 69-71
TtsShutdown ==
    /\ TtsReads
    /\ nTts' = nTts + 1
    /\ SendPacket(Command("shutdown", ""), <<>>, TtsEv("bye", "", 0, ""),
                  [Command("shutdown", "") EXCEPT !.pc = "returned"])
    /\ UNCHANGED <<tts_sessions, peer, notTts>>

\* Lines 73-75
TtsMissingSessionId ==
    /\ TtsReads
    /\ nTts' = nTts + 1
    /\ SendPacket(Command("nosid", ""), <<>>,
                  TtsEv("error", "", 0, "missing session_id"),
                  Command("nosid", ""))
    /\ UNCHANGED <<tts_sessions, peer, notTts>>

\* Lines 77-80
TtsStartSession ==
    /\ TtsReads
    /\ nTts' = nTts + 1
    /\ \E sid \in SessionIds :
        /\ tts_sessions' = tts_sessions \cup {sid}
        /\ SendPacket(Command("start_session", sid), <<>>,
                      TtsEv("session_started", sid, 0, ""),
                      Command("start_session", sid))
    /\ UNCHANGED <<peer, notTts>>

\* Lines 82-85
TtsStopSession ==
    /\ TtsReads
    /\ nTts' = nTts + 1
    /\ \E sid \in SessionIds :
        /\ tts_sessions' = tts_sessions \ {sid}
        /\ SendPacket(Command("stop_session", sid), <<>>,
                      TtsEv("session_stopped", sid, 0, ""),
                      Command("stop_session", sid))
    /\ UNCHANGED <<peer, notTts>>

\* Lines 87-101: speak_text up to the call of generate_stream, which will
\* yield n chunks and then end or raise (n = 0 and a raise: get_model or
\* the first step of the synthesis fails).
TtsSpeakText ==
    /\ TtsReads
    /\ nTts' = nTts + 1
    /\ \E sid \in SessionIds, text \in Texts, speed \in Speeds,
          n \in 0..MaxChunks, fails \in BOOLEAN :
        LET c == [Command("speak_text", sid) EXCEPT !.text = text] IN
        IF ~c.known
        THEN SendPacket(c, <<>>, TtsEv("error", sid, 0, "unknown session"), c)
        ELSE IF text = ""
        THEN SendPacket(c, <<>>, TtsEv("session_done", sid, 0, ""), c)
        ELSE IF speed = "notnumber"
        THEN /\ tts' = Raised(c, "ValueError")
             /\ tts_sent' = <<>>
        ELSE /\ tts' = [c EXCEPT !.pc = "speaking", !.left = n,
                                 !.fails = fails]
             /\ tts_sent' = <<>>
    /\ UNCHANGED <<tts_sessions, peer, notTts>>

\* Lines 102-115: one chunk of the stream, sent with its seq.
TtsAudioChunk ==
    /\ tts.pc = "speaking"
    /\ tts.left > 0
    /\ SendPacket(tts, tts_sent,
                  TtsEv("audio_chunk", tts.session_id, tts.seq, ""),
                  [tts EXCEPT !.seq = tts.seq + 1, !.left = tts.left - 1])
    /\ UNCHANGED <<tts_sessions, peer, nTts, notTts>>

\* Lines 116 and 120: the stream ended.
TtsSessionDone ==
    /\ tts.pc = "speaking"
    /\ tts.left = 0
    /\ ~tts.fails
    /\ SendPacket(tts, tts_sent, TtsEv("session_done", tts.session_id, 0, ""),
                  [tts EXCEPT !.pc = "recv"])
    /\ UNCHANGED <<tts_sessions, peer, nTts, notTts>>

\* Lines 117-120: the synthesis raised.
TtsFailed ==
    /\ tts.pc = "speaking"
    /\ tts.left = 0
    /\ tts.fails
    /\ SendPacket(tts, tts_sent,
                  TtsEv("error", tts.session_id, 0, "tts failed"),
                  [tts EXCEPT !.pc = "recv"])
    /\ UNCHANGED <<tts_sessions, peer, nTts, notTts>>

\* Line 122
TtsUnknownCmd ==
    /\ TtsReads
    /\ nTts' = nTts + 1
    /\ \E sid \in SessionIds :
        SendPacket(Command("unknown", sid), <<>>,
                   TtsEv("error", sid, 0, "unknown cmd"),
                   Command("unknown", sid))
    /\ UNCHANGED <<tts_sessions, peer, notTts>>

-----------------------------------------------------------------------------
(* The causal feature encoder, frame by frame (voxmlx/encoder.py,          *)
(* voxmlx/model.py): mel frame k of the stream is the number k, a frame of *)
(* zeros added by mx.pad is 0, and a frame a convolution puts out is the   *)
(* window of input frames it was computed from.                            *)

\* Bounds of the encoder specification.
MaxConvChunk == 5   \* mel frames in one call
MaxConvCalls == 4   \* calls of encode_step

\* The frame of zeros that pads the input of the second convolution.
ZeroFrame == <<>>

\* mx.conv1d(x, weight, stride): the windows it is evaluated on, tap by tap.
Conv1d(x, stride) ==
    [j \in 1..ConvOutLen(Len(x), stride) |->
        PySlice(x, (j - 1) * stride, (j - 1) * stride + kernel_size)]

\* x[:, -n:, :] for n > 0
LastFrames(x, n) == PySlice(x, Max(0, Len(x) - n), Len(x))

\* forward_conv(mel), lines 104-109, with CausalConv1d.__call__, lines
\* 15-21: both convolutions over the whole sequence, each left-padded.
forward_conv(mel) ==
    LET x1 == Conv1d(Zeros(PaddingTotal(conv1_stride)) \o mel, conv1_stride)
    IN  Conv1d([i \in 1..PaddingTotal(conv2_stride) |-> ZeroFrame] \o x1,
               conv2_stride)

\* forward_conv_step(new_mel, conv1_tail, conv2_tail), lines 111-142
forward_conv_step(new_mel, conv1_tail, conv2_tail) ==
    LET x == IF conv1_tail # None THEN conv1_tail.frames \o new_mel
             ELSE Zeros(PaddingTotal(conv1_stride)) \o new_mel
        x1 == Conv1d(x, conv1_stride)
        x_in == IF conv2_tail # None THEN conv2_tail.frames \o x1
                ELSE [i \in 1..PaddingTotal(conv2_stride) |-> ZeroFrame] \o x1
    IN  [x |-> Conv1d(x_in, conv2_stride),
         conv1_tail |->
            [frames |-> LastFrames(new_mel, PaddingTotal(conv1_stride))],
         conv2_tail |->
            [frames |-> LastFrames(x1, PaddingTotal(conv2_stride))]]

\* A variant of the grouping below that forgets the remainder it was
\* given when no group is complete.
DownsampleForgetful(x_new, ds_buf) ==
    LET x == (IF ds_buf # None THEN ds_buf.frames ELSE <<>>) \o x_new
        n_complete == (Len(x) \div downsample_factor) * downsample_factor
    IN  [groups |->
            [g \in 1..(n_complete \div downsample_factor) |->
                PySlice(x, (g - 1) * downsample_factor,
                        g * downsample_factor)],
         ds_buf |-> IF n_complete = 0 THEN [frames |-> x_new]
                    ELSE IF Len(x) > n_complete
                    THEN [frames |-> PySlice(x, n_complete, Len(x))]
                    ELSE None]

\* encode_step, lines 130-143: the frames x_new out of the transformer
\* join the remainder ds_buf; the rows of the reshape are the groups.
Downsample(x_new, ds_buf) ==
    LET x == (IF ds_buf # None THEN ds_buf.frames ELSE <<>>) \o x_new
        n_complete == (Len(x) \div downsample_factor) * downsample_factor
    IN  [groups |->
            [g \in 1..(n_complete \div downsample_factor) |->
                PySlice(x, (g - 1) * downsample_factor,
                        g * downsample_factor)],
         ds_buf |-> IF n_complete = 0 THEN [frames |-> x]
                    ELSE IF Len(x) > n_complete
                    THEN [frames |-> PySlice(x, n_complete, Len(x))]
                    ELSE None]

\* The chunk lengths of the specification: from the shortest one that
\* gives every mx.conv1d of a call an input of at least kernel_size frames.
ConvChunks == (kernel_size - PaddingTotal(conv2_stride))..MaxConvChunk

\* Before the first call: no tails, no remainder (stream.py, lines 90-94).
NoEncoding ==
    [fed |-> 0, conv1_tail |-> None, conv2_tail |-> None, ds_buf |-> None,
     windows |-> <<>>, n_frames |-> 0, groups |-> <<>>, calls |-> 0]

EncoderIdle == encoder = NoEncoding

EncoderInit == EncoderIdle

\* encode_step(new_mel, conv1_tail, conv2_tail, encoder_cache, ds_buf) with
\* the next n mel frames of the stream.  The transformer puts out one frame
\* per frame of the convolutions; post-convolution frame k of the stream is
\* the number k.
EncodeStepCall ==
    /\ encoder.calls < MaxConvCalls
    /\ \E n \in ConvChunks :
        LET new_mel == Positions(encoder.fed + 1, encoder.fed + n)
            conv == forward_conv_step(new_mel, encoder.conv1_tail,
                                      encoder.conv2_tail)
            x == Positions(encoder.n_frames + 1,
                           encoder.n_frames + Len(conv.x))
            ds == Downsample(x, encoder.ds_buf)
        IN  encoder' = [fed |-> encoder.fed + n,
                        conv1_tail |-> conv.conv1_tail,
                        conv2_tail |-> conv.conv2_tail,
                        ds_buf |-> ds.ds_buf,
                        windows |-> encoder.windows \o conv.x,
                        n_frames |-> encoder.n_frames + Len(conv.x),
                        groups |-> encoder.groups \o ds.groups,
                        calls |-> encoder.calls + 1]
    /\ UNCHANGED notEncoder

-----------------------------------------------------------------------------
(* Properties of the cache.                                                *)

\* Both caches of SpecCacheEquiv have been fed all n positions.
BothFed == bulkCache.alloc /\ stepCache.offset = nPos

\* C1: for n positions with n below max_size, a fresh cache fed by one bulk
\* update and a fresh cache fed by n single-position updates return, after
\* the last update, the same positions in the same order.
C1_BulkEqualsSingles == BothFed => bulkRet = stepRet

\* C1's case: n >= 3 positions fed both ways, the in-place cache having
\* grown in blocks smaller than max_size.
C1_Witness ==
    /\ BothFed
    /\ nPos >= 3
    /\ stepCache.step < nPos
    /\ Len(stepCache.keys) > nPos

\* The last k positions appended, oldest first.
LastAppended(c, k) == Positions(c.offset - k + 1, c.offset)

\* C2 (as claimed): after max_size + k single-position updates (k > 0) on a
\* fresh cache, update_and_fetch returns exactly the last max_size positions
\* appended, in chronological order (oldest first).
C2_WrappedChronological ==
    (nBulk = 0 /\ nSingle > cache.max_size)
        => ret = LastAppended(cache, cache.max_size)

\* C3 (as claimed): after every update_and_fetch call, in any sequence of
\* bulk and single-position updates, 0 <= _idx <= max_size and
\* _offset >= _idx.
C3_CursorInvariant ==
    lastOp # "none" =>
        /\ 0 <= cache.idx
        /\ cache.idx <= cache.max_size
        /\ cache.offset >= cache.idx

\* C5 (as claimed): however one buffer is split into chunks, the frames
\* emitted by successive log_mel_spectrogram_step calls are the consecutive
\* hop-spaced windows of the one-shot left-padded framing of the buffer:
\* each window once, in order, none skipped, shifted or repeated.
C5_ChunkedFramesAreBatchFrames ==
    /\ Len(melFrames) <= Len(BatchFrames(melFed))
    /\ \A i \in 1..Len(melFrames) : melFrames[i] = BatchFrames(melFed)[i]

\* C4: at the end of every orchestrator cycle, n_total_decoded <=
\* N_LEFT_PAD_TOKENS + floor(n_audio_samples_fed / SAMPLES_PER_TOKEN),
\* the cycle that runs the prefill and sets n_total_decoded to prefix_len
\* included.
C4_LookaheadInvariant == st.n_total_decoded <= SafeTotal(st)

\* C4's case: the prefill has just run on the fewest samples that allow it.
C4_Witness ==
    /\ st.prefilled
    /\ st.n_total_decoded = prefix_len
    /\ SafeTotal(st) = prefix_len + 1

-----------------------------------------------------------------------------
(* Properties of the STT worker.                                           *)

\* C6: the bytes on the output channel are always a concatenation of whole
\* frames: nothing is on the channel beyond whole frames but, at most, the
\* header of the frame being written.
C6_WireWellFramed ==
    wire = <<>> \/ (Len(wire) = 1 /\ wire[1].part = "header")

\* C7: at no time are two threads inside a model transcription.
C7_OneTranscriptionAtATime == Cardinality(inModel) <= 1

\* Every byte of the audio pcm was sent to session id sid.
AllSentTo(pcm, sid) == \A k \in 1..Len(pcm) : pcm[k].to = sid

\* The foreground is between reading an audio_chunk for sid and appending it.
ChunkInFlight(sid) ==
    fg.kind \in ChunkKinds /\ fg.session_id = sid /\ fg.pc # "recv"

\* C8: the chunk list of every active session holds exactly the chunks
\* addressed to its id, and every partial snapshot and every final input
\* holds only bytes sent to the id of the thread's session.
C8_SessionIsolation ==
    /\ \A sid \in SessionIds :
         sessions[sid] # 0 /\ ~ChunkInFlight(sid)
            => sess[sessions[sid]].chunks = arrived[sid]
    /\ \A sid \in SessionIds :
         sessions[sid] # 0 => AllSentTo(Join(sess[sessions[sid]].chunks), sid)
    /\ \A i \in 1..Len(pollers) :
         AllSentTo(pollers[i].snapshot, pollers[i].session_id)
    /\ AllSentTo(fg.pcm_bytes, fg.session_id)

\* Both ids are active with audio, and the poller of one has taken a
\* snapshot while the other holds audio.
C8_Witness ==
    /\ \A sid \in SessionIds :
         sessions[sid] # 0 /\ Join(sess[sessions[sid]].chunks) # <<>>
    /\ \E i \in 1..Len(pollers) : pollers[i].snapshot # <<>>

\* The foreground has joined the chunks of the session of a stop_session.
StopJoined ==
    /\ fg.kind = "stop" /\ fg.session # 0
    /\ fg.pc \in {"stop_generate", "send_header", "send_payload", "pop_lock",
                  "pop_body", "recv"}

\* The foreground has finished the stop_session of sid.
StopDone(sid) ==
    /\ script[sid] = "closed"
    /\ ~(fg.session_id = sid /\ fg.pc \in {"stop_lock", "stop_get",
            "stop_lock_session", "stop_body", "stop_generate", "send_header",
            "send_payload"})

UnknownChunk ==
    fg.kind \in ChunkKinds /\ atRecv.sessions[fg.session_id] = 0

\* C10: an audio_chunk for an id without entry in the session table makes
\* the foreground send exactly one event, the error "unknown session", and
\* leaves the table and every session's chunks, chunk_count and stop flag
\* as they were.
C10_UnknownSessionChunk ==
    UnknownChunk =>
        /\ sessions = atRecv.sessions
        /\ SessionData = atRecv.sess
        /\ fgSent = IF fg.pc = "recv"
                    THEN <<Ev("error", fg.session_id, "unknown session", 0)>>
                    ELSE <<>>

\* Such a command has been handled while another session holds audio.
C10_Witness ==
    /\ UnknownChunk /\ fg.pc = "recv"
    /\ \E sid \in SessionIds :
         sessions[sid] # 0 /\ sess[sessions[sid]].chunk_count > 0

\* The foreground handles a complete frame whose payload is not a JSON
\* object: bytes that are not JSON (or not UTF-8), or JSON of another type.
MalformedFrame == fg.kind \in {"badjson", "nonobject"}

\* C11: for a complete frame whose payload is not a well-formed JSON command
\* object the worker sends exactly one error event, changes no session
\* state and does not terminate: it returns to reading frames.
C11_MalformedFrameOneError ==
    MalformedFrame =>
        /\ sessions = atRecv.sessions
        /\ SessionData = atRecv.sess
        /\ fg.pc \in {"send_header", "send_payload", "recv"}
        /\ fg.pc = "recv" => Len(fgSent) = 1 /\ fgSent[1].event = "error"

\* C12: for each session id the chunk_count values of successive partial
\* events on the wire are non-decreasing: no partial event for an id carries
\* a lower chunk_count than the partial event before it.
C12_PartialCountsNonDecreasing ==
    \A sid \in SessionIds : since[sid]["regressions"] = 0

\* The session object obj has an entry in the session table.
InTable(obj) == \E sid \in SessionIds : sessions[sid] = obj

\* Some thread is at, or is waiting to enter, a block that reads or writes
\* the chunks, chunk_count or stop flag of the session object obj.
Accessed(obj) ==
    \/ /\ fg.session = obj
       /\ fg.pc \in {"chunk_lock_session", "chunk_append",
                     "stop_lock_session", "stop_body"}
    \/ \E i \in 1..Len(pollers) :
         /\ pollers[i].session = obj
         /\ pollers[i].pc \in {"lock_session", "snapshot"}

\* This step takes the entry of the session object obj out of the table.
Removes(obj) == InTable(obj) /\ ~InTable(obj)'

\* C13: no thread reads or writes a session's chunks, chunk_count or stop
\* flag once the session has no entry in the session table, and a step that
\* removes the entry is taken only when no thread holds the session's lock
\* or is in a block on its data.
C13_NoAccessAfterRemoval ==
    /\ [](\A obj \in 1..Len(sess) : Accessed(obj) => InTable(obj))
    /\ [][\A obj \in 1..Len(sess) :
            Removes(obj) => sess[obj].lock = {} /\ ~Accessed(obj)]_vars

\* The entry of a stopped session is gone while its poller is still
\* transcribing a snapshot of it.
C13_Witness ==
    \E i \in 1..Len(pollers) :
        /\ ~InTable(i)
        /\ sess[i].stop
        /\ pollers[i].pc = "generate"

\* The threads of the worker: the foreground and the partial_loop threads.
Threads == {Foreground} \cup (1..Len(pollers))

\* A lock: the table lock, the lock of session object obj, or none.
Lock(kind, obj) == [kind |-> kind, obj |-> obj]

\* The lock thread t is about to acquire, if any.
Wanted(t) ==
    IF t = Foreground
    THEN CASE fg.pc \in {"start_lock", "chunk_lock", "stop_lock", "pop_lock"}
                -> Lock("table", 0)
           [] fg.pc \in {"chunk_lock_session", "stop_lock_session"}
                -> Lock("session", fg.session)
           [] OTHER -> Lock("none", 0)
    ELSE CASE pollers[t].pc = "loop" -> Lock("table", 0)
           [] pollers[t].pc = "lock_session"
                -> Lock("session", pollers[t].session)
           [] OTHER -> Lock("none", 0)

\* The threads holding the lock l.
Holders(l) ==
    CASE l.kind = "none" -> {}
      [] l.kind = "table" -> sessions_lock
      [] l.kind = "session" -> sess[l.obj].lock

\* Thread t holds the lock of some session.
HoldsSessionLock(t) == \E obj \in 1..Len(sess) : t \in sess[obj].lock

\* Thread t can go on: it waits for no lock, or for a lock whose holder can
\* go on, along a chain of at most n threads.
RECURSIVE CanProceed(_, _)
CanProceed(t, n) ==
    \/ Holders(Wanted(t)) = {}
    \/ /\ n > 0
       /\ \A h \in Holders(Wanted(t)) : h # t /\ CanProceed(h, n - 1)

\* C14: no thread acquires the session-table lock while it holds the lock
\* of a session, and no set of threads is deadlocked: every thread that
\* waits for a lock waits for a thread that can go on.
C14_LockOrderNoDeadlock ==
    /\ \A t \in Threads : Wanted(t).kind = "table" => ~HoldsSessionLock(t)
    /\ \A t \in Threads : CanProceed(t, Cardinality(Threads))
    /\ Cardinality(sessions_lock) <= 1
    /\ \A obj \in 1..Len(sess) : Cardinality(sess[obj].lock) <= 1

\* The foreground waits for the lock of a session while a partial_loop
\* thread holds it inside the table lock, and another partial_loop thread
\* waits for the table lock.
C14_Witness ==
    /\ Wanted(Foreground).kind = "session"
    /\ \E i \in 1..Len(pollers) :
         /\ i \in Holders(Wanted(Foreground))
         /\ i \in sessions_lock
    /\ \E j \in 1..Len(pollers) :
         Wanted(j).kind = "table"

\* The reply to a shutdown command is on the wire, whole.
ByeSent == fg.kind = "shutdown" /\ fg.pc = "returned"

\* C15: after a shutdown command is read the worker sends bye exactly once,
\* and once bye is on the wire no thread writes anything more to it: no
\* partial, error or final event of any session follows bye.
C15_NothingAfterBye ==
    /\ [](ByeSent => fgSent = <<Ev("bye", "", "", 0)>>)
    /\ [][ByeSent => wire' = wire]_vars

\* This step is one in which partial_loop thread i has looked at its
\* session under the locks and gone on rather than returned.
LooksOn(i) ==
    /\ pollers[i].pc = "snapshot"
    /\ pollers'[i].pc \in {"generate", "loop"}

\* stop_session has completed for the session object obj: its stop flag is
\* set and its table entry is gone.
Stopped(obj) == obj <= Len(sess) /\ sess[obj].stop /\ ~InTable(obj)

\* Thread i, started with session object i, has ended: it has returned, or
\* the process has exited.
Ended(i) == ~alive \/ (i <= Len(pollers) /\ pollers[i].pc = "done")

\* The id of the thread started with session object i has an entry again.
Restarted(i) == i <= Len(pollers) /\ sessions[pollers[i].session_id] # 0

\* C16: a partial_loop thread that finds the stop flag of its session set
\* takes no snapshot of it, and once stop_session has completed for a
\* session and its id has no new entry, the thread started with the session
\* eventually ends.
C16_PollerStopsAfterStop ==
    /\ [][\A i \in 1..Len(pollers) :
            LooksOn(i) => ~sess[pollers[i].session].stop]_vars
    /\ \A i \in 1..MaxStarts :
         Stopped(i) ~> (Ended(i) \/ Restarted(i))

\* stop_session has completed for a session whose poller has not ended.
C16_Witness ==
    \E i \in 1..Len(pollers) :
        /\ Stopped(i) /\ ~Ended(i)
        /\ sessions[pollers[i].session_id] = 0
        /\ pollers[i].pc = "loop"

\* The partial_loop threads of session id sid that have not returned.
LivePollers(sid) ==
    {i \in 1..Len(pollers) :
        pollers[i].session_id = sid /\ pollers[i].pc # "done"}

\* C17: at every moment at most one live partial_loop thread polls any
\* given session id.
C17_OnePollerPerId ==
    \A sid \in SessionIds : Cardinality(LivePollers(sid)) <= 1

-----------------------------------------------------------------------------
(* Properties of recv_packet.                                              *)

\* The length the first four bytes of the input declare, big endian.
Declared(input) == input[1] * 16777216 + input[2] * 65536 + input[3] * 256 + input[4]

\* The input starts with a whole frame of zero-length payload.
ZeroLengthFrame(input) == Len(input) >= 4 /\ Declared(input) = 0

\* The channel closes inside the first frame of the input: the header, or
\* the payload it declares, is cut short.
ClosedInFrame(input) ==
    \/ Len(input) < 4
    \/ Len(input) >= 4 /\ Len(input) - 4 < Declared(input)

\* C18: recv_packet returns an empty payload for a frame with zero-length
\* payload, and the loop reads on; it returns None exactly when the header
\* or the payload read is shorter than declared, and then the loop ends with
\* nothing sent, so without bye.
C18_EmptyFrameIsNotClosure ==
    rx.n > 0 =>
        /\ ZeroLengthFrame(rx.input) =>
              /\ rx.payload = [bytes |-> <<>>]
              /\ rx.loop = "running"
              /\ stdin = PySlice(rx.input, 4, Len(rx.input))
        /\ ClosedInFrame(rx.input) =>
              /\ rx.payload = None
              /\ rx.loop = "ended"
              /\ rx.sent = <<>>
        /\ rx.payload = None => ClosedInFrame(rx.input)

\* After a frame with zero-length payload the loop has read on, into a
\* header cut short, and ended there.
C18_Witness ==
    /\ rx.n = 2
    /\ Len(rx.input) = MaxStdin - 4
    /\ rx.input # <<>>
    /\ rx.loop = "ended"
    /\ rx.payload = None

-----------------------------------------------------------------------------
(* Properties of the decode loops.                                         *)

Elements(seq) == {seq[k] : k \in 1..Len(seq)}

\* C19: the end-of-sequence token id is never in the list generate returns
\* nor among the tokens stream_transcribe prints, in decode_steps or in the
\* flush of the last pending token, whatever tokens are sampled.
C19_EosNeverInOutput ==
    /\ eos_token_id \notin Elements(gen.output_tokens)
    /\ eos_token_id \notin Elements(tok.printed)

\* generate met the end of sequence after a text token, and the stream
\* ended after an end of sequence was sampled with text printed before it.
C19_Witness ==
    /\ gen.output_tokens # <<>>
    /\ \E k \in 1..gen.n : gen.samples[k] = eos_token_id
    /\ tok.pc = "done"
    /\ tok.printed # <<>>
    /\ eos_token_id \in Elements(tok.sampled)

-----------------------------------------------------------------------------
(* Properties of the capture-to-decoder pipeline of stream_transcribe.     *)

\* Every sample drained is fed to the encoder or held in pending_audio.
SamplesKept == ledger.drained = ledger.fed + st.pending_audio

\* Every embedding produced is decoded or queued in audio_embeds.
EmbeddingsKept == ledger.produced = ledger.decoded + Queued(st)

\* C20: at every cycle boundary every sample drained from the capture buffer
\* has been fed to the encoder or is held in pending_audio, and every
\* embedding produced has been decoded or is queued in audio_embeds:
\* nothing is discarded while the loop keeps listening.
C20_NothingDiscardedWhileListening == SamplesKept /\ EmbeddingsKept

-----------------------------------------------------------------------------
(* Properties of the TTS worker.                                           *)

\* The audio_chunk events of a stream of n chunks for sid.
AudioChunks(sid, n) == [k \in 1..n |-> TtsEv("audio_chunk", sid, k - 1, "")]

\* The handler of the last frame read has ended, one way or another.
TtsHandled == tts.pc \in {"recv", "returned", "raised"}

\* C21: for a speak_text on a known session, while the peer reads: with
\* text, the events sent are audio_chunk with seq 0, 1, 2, ... and, once
\* the handler has ended, exactly one session_done after them, or an error
\* in its place if the synthesis failed; with empty text, session_done
\* alone.
C21_SpeakTextEvents ==
    (peer = "open" /\ tts.cmd = "speak_text" /\ tts.known) =>
        IF tts.text = ""
        THEN tts_sent = <<TtsEv("session_done", tts.session_id, 0, "")>>
        ELSE IF ~TtsHandled
        THEN tts_sent = AudioChunks(tts.session_id, tts.seq)
        ELSE tts_sent =
                AudioChunks(tts.session_id, tts.seq) \o
                <<IF tts.fails
                  THEN TtsEv("error", tts.session_id, 0, "tts failed")
                  ELSE TtsEv("session_done", tts.session_id, 0, "")>>

\* C22: a session-scoped command of the TTS worker (speak_text,
\* stop_session) that names a session id not in the session table is
\* answered, while the peer reads, by exactly one error event citing the
\* unknown session and by no other event.
C22_UnknownSessionOneError ==
    (peer = "open" /\ TtsHandled /\ tts.cmd \in {"speak_text", "stop_session"}
        /\ ~tts.known) =>
        tts_sent = <<TtsEv("error", tts.session_id, 0, "unknown session")>>

\* C23: a failed write to the output channel raises no exception out of
\* the loop: the worker never ends by BrokenPipeError.
C23_WriteFailureSuppressed ==
    tts.pc = "raised" => tts.exc # "BrokenPipeError"

-----------------------------------------------------------------------------
(* Further properties of the cache, over arbitrary histories (SpecCache).  *)

\* The last step was a single-position update.
SingleStep == nSingle' = nSingle + 1

\* C24: after every single-position update, whatever updates came before,
\* the buffer holds at most max_size positions; and a single-position
\* update that lengthens the buffer lengthens it by a block of
\* min(step, max_size - offset) positions.
C24_BoundedBufferBlockGrowth ==
    /\ [](lastOp = "single" => Len(cache.keys) <= cache.max_size)
    /\ [][(SingleStep /\ Len(cache'.keys) > Len(cache.keys)) =>
            Len(cache'.keys) - Len(cache.keys) =
                Min(cache.step, cache.max_size - cache.offset)]_vars

\* C24's case: bulk and single-position updates have both happened, the
\* last one was single, and it left preallocated slots of a block behind
\* the position written.
C24_Witness ==
    /\ lastOp = "single"
    /\ nBulk > 0
    /\ cache.step > 1
    /\ Len(cache.keys) > cache.offset

\* The positions a sequence holds.
Held(seq) == {seq[k] : k \in 1..Len(seq)}

\* A bulk prefill came first and every update after it was single-position.
PrefillThenSingles == firstOp = "bulk" /\ nBulk = 1

\* The slots where buffers a and b of one length differ.
Rewritten(a, b) == {w \in 1..Len(a) : a[w] # b[w]}

\* C25: after a bulk prefill and any number of single-position updates, the
\* positions the latest update returned are exactly the min(_offset,
\* max_size) positions appended last, with no empty slot and no evicted
\* position among them; and a single-position update on a buffer of
\* max_size positions rewrites one slot, the one of the oldest position
\* retained.
C25_ReturnsMostRecentWindow ==
    /\ [](PrefillThenSingles =>
            /\ Held(ret) = Held(LastAppended(cache,
                                Min(cache.offset, cache.max_size)))
            /\ Len(ret) = Min(cache.offset, cache.max_size))
    /\ [][(PrefillThenSingles /\ SingleStep
            /\ Len(cache.keys) = cache.max_size
            /\ cache.offset >= cache.max_size) =>
            /\ Len(cache'.keys) = cache.max_size
            /\ \E w \in 1..cache.max_size :
                /\ Rewritten(cache.keys, cache'.keys) = {w}
                /\ \A v \in 1..cache.max_size : cache.keys[w] <= cache.keys[v]
                /\ cache'.keys[w] = cache'.offset]_vars

\* The invariant part of C25 once a single-position update has followed
\* the prefill.
WindowAfterSingles ==
    (PrefillThenSingles /\ lastOp = "single") =>
        /\ Held(ret) = Held(LastAppended(cache,
                            Min(cache.offset, cache.max_size)))
        /\ Len(ret) = Min(cache.offset, cache.max_size)

\* C26: after every bulk update the cache holds and returns at most
\* max_size positions, the most recent ones.
C26_BulkTrimsToCapacity ==
    lastOp = "bulk" =>
        /\ Len(cache.keys) <= cache.max_size
        /\ Len(ret) <= cache.max_size
        /\ ret = LastAppended(cache, Len(ret))

\* C27: a bulk update on a cache in any reachable state returns positions in
\* chronological order: the old positions retained, oldest first and with
\* no empty slot among them, then the new positions.
C27_BulkReturnsChronological ==
    lastOp = "bulk" => ret = LastAppended(cache, Len(ret))

\* C27's case: the one bulk update came last, on a cache that more than
\* max_size single-position updates had wrapped, the cursor inside the
\* buffer.
C27_Witness ==
    /\ lastOp = "bulk"
    /\ nBulk = 1
    /\ cache.max_size >= 3
    /\ nSingle > cache.max_size
    /\ nSingle % cache.max_size # 0

-----------------------------------------------------------------------------
(* Properties of the causal feature encoder.                               *)

\* C28: however the mel frames are split into chunks, the windows that the
\* stride-2 convolution of forward_conv_step has been evaluated on, call
\* after call, are the windows of the whole-sequence causal convolution
\* over the frames fed so far: the same frames in the same tap positions.
C28_StepWindowsAreWholeWindows ==
    encoder.windows = forward_conv(Positions(1, encoder.fed))

\* All the frames of a sequence of groups, in order.
RECURSIVE Flatten(_)
Flatten(groups) ==
    IF groups = <<>> THEN <<>> ELSE Head(groups) \o Flatten(Tail(groups))

\* The frames of the downsample remainder.
Remainder == IF encoder.ds_buf = None THEN <<>> ELSE encoder.ds_buf.frames

\* C29: after every call of encode_step the downsample remainder holds
\* between 0 and D - 1 frames, the embeddings emitted so far number
\* floor(post-convolution frames / D), and the groups, followed by the
\* remainder, are the post-convolution frames in arrival order, D to a
\* group: none lost, none used twice.
C29_DownsampleGroups ==
    /\ Len(Remainder) \in 0..(downsample_factor - 1)
    /\ Len(encoder.groups) = encoder.n_frames \div downsample_factor
    /\ \A g \in 1..Len(encoder.groups) :
        Len(encoder.groups[g]) = downsample_factor
    /\ Flatten(encoder.groups) \o Remainder = Positions(1, encoder.n_frames)

\* C29's case: groups have been emitted, a remainder is carried, and it
\* took more than two calls.
C29_Witness ==
    /\ encoder.calls >= 3
    /\ Len(encoder.groups) >= 1
    /\ Len(Remainder) > 0

-----------------------------------------------------------------------------
(* A further property of the spectral frontend (SpecMel).                  *)

\* The combined buffer of the call that a step of SpecMel makes.
CombinedOfCall == Combined(melFed' - melFed, melTail)

\* C30: a call of log_mel_spectrogram_step whose combined buffer (the tail,
\* or the zero padding of a first call, followed by the chunk) is shorter
\* than N_FFT samples returns no frame and a tail of exactly
\* N_FFT - HOP_LENGTH samples.
C30_ShortBufferKeepsFullTail ==
    [][(melCalls' = melCalls + 1 /\ BufLen(CombinedOfCall) < N_FFT) =>
            /\ melFrames' = melFrames
            /\ BufLen(melTail') = N_FFT - HOP_LENGTH]_vars

\* The part of C30 about frames alone.
ShortBufferNoFrames ==
    [][(melCalls' = melCalls + 1 /\ BufLen(CombinedOfCall) < N_FFT) =>
            melFrames' = melFrames]_vars

-----------------------------------------------------------------------------
(* Further properties of the streaming orchestrator (SpecStream).          *)

\* The samples that have entered log_mel_spectrogram_step in the current
\* utterance: the end of the carried tail, less the STFT padding of the
\* first call.
EnteredFrontend == st.audio_tail.hi - N_FFT \div 2

\* C31: the main loop feeds whole multiples of SAMPLES_PER_TOKEN only (the
\* samples fed over the run and n_audio_samples_fed are multiples of it),
\* fewer than SAMPLES_PER_TOKEN samples stay in pending_audio after a
\* cycle, and the left pad of silence has entered the frontend exactly once
\* in an utterance that has been fed, and not at all before its first feed.
C31_WholeTokensAndOneLeftPad ==
    /\ ledger.fed % SAMPLES_PER_TOKEN = 0
    /\ st.n_audio_samples_fed % SAMPLES_PER_TOKEN = 0
    /\ st.pending_audio < SAMPLES_PER_TOKEN
    /\ st.first_cycle <=> st.audio_tail = None
    /\ st.first_cycle => st.n_audio_samples_fed = 0
    /\ ~st.first_cycle =>
          EnteredFrontend =
              N_LEFT_PAD_TOKENS * SAMPLES_PER_TOKEN + st.n_audio_samples_fed

\* C31's case: a second utterance (after a reset) that has been fed in more
\* than one cycle.
C31_Witness ==
    /\ ~st.first_cycle
    /\ st.n_audio_samples_fed >= 2 * SAMPLES_PER_TOKEN
    /\ ledger.fed > st.n_audio_samples_fed
    /\ st.audio_embeds # None
    /\ st.audio_embeds.n < N_LEFT_PAD_TOKENS

\* The decoder state belongs to a prefill: none before it, and after it a
\* pending token and a cache holding every position consumed, prefix_len
\* of them from the prefill.
DecoderFollowsPrefill ==
    IF st.prefilled
    THEN /\ st.cache # None
         /\ st.y # None
         /\ st.cache.n = st.n_total_decoded
         /\ st.n_total_decoded >= prefix_len
    ELSE /\ st.cache = None
         /\ st.y = None
         /\ st.n_total_decoded = 0

\* C32: between two resets the prefill runs exactly once (the prefills of
\* the run number the resets, plus one while prefilled); it runs only in a
\* cycle whose queue holds at least prefix_len embeddings and takes exactly
\* prefix_len of them; and no position is decoded, and no decoder state
\* exists, before the prefill has sampled its token.
C32_OnePrefillPerUtterance ==
    /\ [](/\ ledger.prefills = ledger.resets + (IF st.prefilled THEN 1 ELSE 0)
          /\ DecoderFollowsPrefill)
    /\ [][ledger'.prefills = ledger.prefills + 1 =>
            /\ ~st.prefilled
            /\ Queued(Encoded(st, audio_buf)) >= prefix_len
            /\ ledger'.decoded - ledger.decoded >= prefix_len
            /\ st'.prefilled =>
                 Queued(st') + (st'.n_total_decoded - prefix_len)
                     = Queued(Encoded(st, audio_buf)) - prefix_len]_vars

\* C32's case: a second utterance has been prefilled and decoded further.
C32_Witness ==
    /\ ledger.prefills >= 2
    /\ st.prefilled
    /\ st.n_total_decoded > prefix_len

\* Every piece of state the main loop carries has its value from before the
\* loop (lines 83-102).
AllInitial(s) ==
    /\ s.audio_tail = None
    /\ s.conv1_tail = None
    /\ s.conv2_tail = None
    /\ s.encoder_cache = None
    /\ s.ds_buf = None
    /\ s.cache = None
    /\ s.y = None
    /\ s.audio_embeds = None
    /\ s.n_audio_samples_fed = 0
    /\ s.n_total_decoded = 0
    /\ s.first_cycle
    /\ ~s.prefilled

\* C33: a cycle whose decode_steps observes the end-of-sequence token ends
\* with every piece of carried state at its initial value, and the audio
\* that arrives after it makes a new utterance: the left pad enters the
\* frontend again with its first feed, and its decoder state comes from a
\* prefill of its own.
C33_EndOfSequenceResetsAll ==
    /\ [][ledger'.resets = ledger.resets + 1 => AllInitial(st')]_vars
    /\ [](ledger.resets > 0 =>
            /\ ~st.first_cycle =>
                 st.audio_tail.hi - N_FFT \div 2 =
                     (N_LEFT_PAD_TOKENS + st.n_audio_samples_fed \div SAMPLES_PER_TOKEN)
                         * SAMPLES_PER_TOKEN
            /\ st.prefilled => ledger.prefills = ledger.resets + 1
            /\ st.cache # None =>
                 st.prefilled /\ st.cache.n = st.n_total_decoded)

\* C33's case: after a reset, new audio has been fed and prefilled.
C33_Witness ==
    /\ ledger.resets >= 1
    /\ ~st.first_cycle
    /\ st.prefilled
    /\ st.n_audio_samples_fed > 0

\* C34: whenever the stream is stopped, every captured sample that was
\* still buffered has been fed (with the right pad) through the frontend
\* and the encoder, every queued embedding has been decoded (up to an end
\* of sequence), and the final pending token is printed exactly when it is
\* not the end-of-sequence token.
C34_StopFlushesEverything ==
    flush.stopped =>
        /\ flush.unfed = 0
        /\ flush.hit_eos \/ flush.n_consumed = flush.queued
        /\ flush.printed <=> PrintsLast(flush.y)

\* The part of C34 that holds: a stop while a prefilled utterance is being
\* decoded.
StopAfterPrefillFlushes ==
    (flush.stopped /\ st.prefilled) =>
        /\ flush.ran
        /\ flush.unfed = 0
        /\ flush.queued >= N_RIGHT_PAD_TOKENS
        /\ flush.hit_eos \/ flush.n_consumed = flush.queued
        /\ flush.printed <=> PrintsLast(flush.y)

-----------------------------------------------------------------------------
(* Further properties of the STT worker (SpecWorker).                      *)

\* The transcription of the stop_session the foreground is handling, or
\* has just handled, raised.
FinalFailed ==
    /\ fg.kind = "stop" /\ fg.session # 0
    /\ fg.out.event = "error"
    /\ fg.out.info = "final transcribe failed"

\* C35: when the transcription of a stop_session raises, the handling of
\* that command sends exactly one event, an error for that session, and no
\* final event is sent for it; the entry of the id is removed from the
\* table; main() goes back to reading commands; and the chunks, chunk_count
\* and stop flag of every other session are as they were when the command
\* was read.
C35_FinalFailureIsContained ==
    FinalFailed =>
        /\ fg.out.session_id = fg.session_id
        /\ fg.pc \in {"send_header", "send_payload", "pop_lock", "pop_body",
                      "recv"}
        /\ fgSent = IF fg.pc \in {"send_header", "send_payload"}
                    THEN <<>> ELSE <<fg.out>>
        /\ since[fg.session_id]["final"] = 0
        /\ fg.pc = "recv" => alive /\ sessions[fg.session_id] = 0
        /\ \A i \in 1..Len(sess) :
             i # fg.session => SessionData[i] = atRecv.sess[i]

\* C35's case: the stop_session of one session has failed and has been
\* handled to its end while another session is open.
C35_Witness ==
    /\ FinalFailed /\ fg.pc = "recv"
    /\ since[fg.session_id]["error"] >= 1
    /\ \E sid \in SessionIds :
         /\ sid # fg.session_id
         /\ sessions[sid] # 0
         /\ sessions[sid] # fg.session

\* Thread i is sending the error event of a failed partial transcription.
SendsPartialFailure(i) ==
    /\ pollers[i].pc \in {"send_header", "send_payload"}
    /\ pollers[i].out.event = "error"

\* C36: a partial transcription that raises in a partial_loop thread makes
\* that poll send one error event for the thread's session and nothing
\* else; neither the raise nor the send changes a session or the table;
\* the thread then polls again; and a thread ends only on the stop flag of
\* its session or on the absence of its id from the table.
C36_PartialFailureIsNotFatal ==
    /\ [](\A i \in 1..Len(pollers) :
            SendsPartialFailure(i) =>
                /\ pollers[i].out.session_id = pollers[i].session_id
                /\ pollers[i].out.info = "partial transcribe failed")
    /\ [][\A i \in 1..Len(pollers) :
            /\ (pollers[i].pc = "generate" /\ pollers'[i].pc # "generate") =>
                 /\ pollers'[i].pc \in {"send_header", "loop"}
                 /\ pollers'[i].last_seen_count = pollers[i].last_seen_count
                 /\ SessionData' = SessionData
                 /\ sessions' = sessions
                 /\ since' = since
            /\ (SendsPartialFailure(i) /\ pollers[i].pc = "send_payload"
                    /\ pollers'[i].pc # "send_payload") =>
                 /\ pollers'[i].pc = "loop"
                 /\ since'[pollers[i].session_id] =
                      [since[pollers[i].session_id] EXCEPT !["error"] = @ + 1]
                 /\ SessionData' = SessionData
                 /\ sessions' = sessions
            /\ (pollers[i].pc # "done" /\ pollers'[i].pc = "done") =>
                 \/ pollers[i].pc = "loop"
                       /\ sessions[pollers[i].session_id] = 0
                 \/ pollers[i].pc = "snapshot"
                       /\ sess[pollers[i].session].stop]_vars

\* C36's case: the one thread of an open session has sent the error of a
\* failed poll and, after a further chunk, a partial result.
C36_Witness ==
    /\ Len(pollers) = 1
    /\ script["a"] = "open"
    /\ raised["a"]
    /\ since["a"]["error"] = 1
    /\ since["a"]["partial"] = 1
    /\ since["a"]["chunk_count"] = 2

\* The foreground has sent the final event, or the error event of a failed
\* final transcription, of the stop_session it is handling.
FinalSent ==
    /\ fg.kind = "stop" /\ fg.session # 0
    /\ fg.pc \in {"pop_lock", "pop_body", "recv"}

\* C37: once stop_session has sent the final event (or the error of a
\* failed final transcription) of a session, no partial event for that
\* session is sent: from then until the next command is read, the count of
\* partial events of that id does not change.
C37_NoPartialAfterFinal ==
    [][FinalSent => since'[fg.session_id]["partial"]
                        = since[fg.session_id]["partial"]]_vars

\* The step completes the send of a partial event by thread i.
SendsPartial(i) ==
    /\ pollers[i].pc = "send_payload"
    /\ pollers[i].out.event = "partial"
    /\ pollers'[i].pc = "loop"

\* The first half of C38: a thread takes a snapshot only of a chunk_count
\* that is at least MIN_CHUNKS_FOR_PARTIAL and differs from the count of
\* its previous snapshot.
SnapshotOnlyOfNewCount ==
    [][\A i \in 1..Len(pollers) :
         (pollers[i].pc = "snapshot" /\ pollers'[i].pc = "generate") =>
            /\ sess[pollers[i].session].chunk_count >= MIN_CHUNKS_FOR_PARTIAL
            /\ sess[pollers[i].session].chunk_count # pollers[i].last_seen_count
            /\ pollers'[i].last_seen_count
                 = sess[pollers[i].session].chunk_count]_vars

\* C38: a thread takes a snapshot only of a chunk_count that is at least
\* MIN_CHUNKS_FOR_PARTIAL and differs from the count of its previous
\* snapshot, and no thread sends two partial events with the same
\* chunk_count.
C38_NoRepeatedPartialCount ==
    [][\A i \in 1..Len(pollers) :
         /\ (pollers[i].pc = "snapshot" /\ pollers'[i].pc = "generate") =>
              /\ sess[pollers[i].session].chunk_count >= MIN_CHUNKS_FOR_PARTIAL
              /\ sess[pollers[i].session].chunk_count
                   # pollers[i].last_seen_count
         /\ SendsPartial(i) =>
              pollers[i].out.chunk_count \notin pollers[i].reported]_vars

-----------------------------------------------------------------------------
(* A further property of generate (SpecDecode).                            *)

\* C40: the loop of generate runs at most n = N_audio - prefix_len
\* iterations, and the list returned is the tokens sampled at the prefill
\* and at the steps after it, in sampling order, up to and without the
\* first end-of-sequence token among the n tokens the loop looks at: at
\* most n tokens.
C40_GenerateReturnsSampledPrefix ==
    gen.samples # <<>> =>
        /\ gen.iterations <= gen.n
        /\ Len(gen.output_tokens) <= gen.n
        /\ \A k \in 1..Len(gen.output_tokens) :
             /\ gen.output_tokens[k] = gen.samples[k]
             /\ gen.samples[k] # eos_token_id
        /\ Len(gen.output_tokens) < gen.n =>
             gen.samples[Len(gen.output_tokens) + 1] = eos_token_id
        /\ gen.iterations = Min(gen.n, Len(gen.output_tokens) + 1)

\* C40's case: generate over three positions returned two tokens and left
\* the loop in its third iteration at the end of sequence; the token sampled
\* last was never looked at.
C40_Witness ==
    /\ gen.n = MaxSamples - 1
    /\ Len(gen.output_tokens) = 2
    /\ gen.iterations = MaxSamples - 1
    /\ gen.samples[3] = eos_token_id
    /\ gen.samples[gen.n + 1] # eos_token_id

-----------------------------------------------------------------------------
(* The frame arithmetic of the streaming pipeline (SpecStream).            *)

\* Spectral frames, post-convolution frames and embeddings per token of
\* SAMPLES_PER_TOKEN samples.
MelPerToken == SAMPLES_PER_TOKEN \div HOP_LENGTH
ConvPerToken == MelPerToken \div conv2_stride
EmbedsPerToken == ConvPerToken \div downsample_factor

\* The length of an array held by its length, 0 for None.
Length(a) == IF a = None THEN 0 ELSE a.n

\* C39: in a cycle after the first of an utterance, the chunk of n *
\* SAMPLES_PER_TOKEN samples fed yields 8n spectral frames from
\* log_mel_spectrogram_step, 4n frames from forward_conv_step and n new
\* embeddings from the downsample grouping; and once an utterance has been
\* fed, the embeddings produced in it (the post-convolution frames grouped
\* by downsample_factor, which are also the positions consumed plus the
\* embeddings queued) do not exceed N_LEFT_PAD_TOKENS +
\* n_audio_samples_fed / SAMPLES_PER_TOKEN.
C39_FramesPerToken ==
    /\ [][(~st.first_cycle /\ ledger'.fed > ledger.fed) =>
            LET n == (ledger'.fed - ledger.fed) \div SAMPLES_PER_TOKEN
                combined == Combined(n * SAMPLES_PER_TOKEN, st.audio_tail)
                e == Encoded(st, audio_buf)
            IN  /\ n >= 1
                /\ StepFrameCount(combined) = MelPerToken * n
                /\ Length(e.encoder_cache) - Length(st.encoder_cache)
                     = ConvPerToken * n
                /\ Queued(e) - Queued(st) = EmbedsPerToken * n
                /\ Length(e.ds_buf) = Length(st.ds_buf)]_vars
    /\ [](~st.first_cycle =>
            /\ Length(st.encoder_cache) \div downsample_factor <= SafeTotal(st)
            /\ Length(st.encoder_cache) \div downsample_factor
                 = st.n_total_decoded + Queued(st))

\* C39's case: an utterance has been fed past its prefill, and the
\* embeddings produced in it are one fewer than the bound.
C39_Witness ==
    /\ ~st.first_cycle
    /\ st.prefilled
    /\ st.n_audio_samples_fed >= 9 * SAMPLES_PER_TOKEN
    /\ ledger.fed = st.n_audio_samples_fed
    /\ Length(st.encoder_cache) \div downsample_factor = SafeTotal(st) - 1

InitCache == CacheInit /\ EquivIdle /\ MelIdle /\ StreamIdle /\ WorkerIdle /\ RecvIdle
    /\ DecodeIdle /\ TtsIdle /\ EncoderIdle
NextCache == SingleUpdate \/ BulkUpdate
SpecCache == InitCache /\ [][NextCache]_vars

InitCacheEquiv == EquivInit /\ CacheIdle /\ MelIdle /\ StreamIdle /\ WorkerIdle /\ RecvIdle
    /\ DecodeIdle /\ TtsIdle /\ EncoderIdle
NextCacheEquiv == FeedBulk \/ FeedSingle
SpecCacheEquiv == InitCacheEquiv /\ [][NextCacheEquiv]_vars

InitMel == MelInit /\ CacheIdle /\ EquivIdle /\ StreamIdle /\ WorkerIdle /\ RecvIdle
    /\ DecodeIdle /\ TtsIdle /\ EncoderIdle
NextMel == MelStep
SpecMel == InitMel /\ [][NextMel]_vars

InitStream == StreamInit /\ CacheIdle /\ EquivIdle /\ MelIdle /\ WorkerIdle /\ RecvIdle
    /\ DecodeIdle /\ TtsIdle /\ EncoderIdle
NextStream == Callback \/ Cycle \/ Stop
SpecStream == InitStream /\ [][NextStream]_vars

InitWorker == WorkerInit /\ CacheIdle /\ EquivIdle /\ MelIdle /\ StreamIdle /\ RecvIdle
    /\ DecodeIdle /\ TtsIdle /\ EncoderIdle
NextWorker ==
    \/ FgRecv
    \/ FgWriteHeader
    \/ FgWritePayload
    \/ FgLockTable
    \/ StartSession
    \/ ChunkGet
    \/ FgLockSession
    \/ ChunkAppend
    \/ StopGet
    \/ StopBody
    \/ StopGenerated
    \/ StopPop
    \/ ProcessExit
    \/ PollLockTable
    \/ PollLockSession
    \/ PollSnapshot
    \/ PollGenerated
    \/ PollWriteHeader
    \/ PollWritePayload
SpecWorker == InitWorker /\ [][NextWorker]_vars

InitRecv ==
    RecvInit /\ CacheIdle /\ EquivIdle /\ MelIdle /\ StreamIdle /\ WorkerIdle
    /\ DecodeIdle /\ TtsIdle /\ EncoderIdle
NextRecv == RecvLoop
SpecRecv == InitRecv /\ [][NextRecv]_vars

InitDecode ==
    DecodeInit /\ CacheIdle /\ EquivIdle /\ MelIdle /\ StreamIdle /\ WorkerIdle
    /\ RecvIdle /\ TtsIdle /\ EncoderIdle
NextDecode ==
    GenerateCall \/ TokPrefill \/ TokDecodeSteps \/ TokInterrupted \/ TokFlush
SpecDecode == InitDecode /\ [][NextDecode]_vars

InitTts ==
    TtsInit /\ CacheIdle /\ EquivIdle /\ MelIdle /\ StreamIdle /\ WorkerIdle
    /\ RecvIdle /\ DecodeIdle /\ EncoderIdle
NextTts ==
    \/ PeerGone \/ TtsReady \/ TtsEof \/ TtsInvalidJson \/ TtsNotAnObject
    \/ TtsShutdown \/ TtsMissingSessionId \/ TtsStartSession
    \/ TtsStopSession \/ TtsSpeakText \/ TtsAudioChunk \/ TtsSessionDone
    \/ TtsFailed \/ TtsUnknownCmd
SpecTts == InitTts /\ [][NextTts]_vars

InitEncoder ==
    EncoderInit /\ CacheIdle /\ EquivIdle /\ MelIdle /\ StreamIdle /\ WorkerIdle
    /\ RecvIdle /\ DecodeIdle /\ TtsIdle
NextEncoder == EncodeStepCall
SpecEncoder == InitEncoder /\ [][NextEncoder]_vars

\* The worker fed frames that carry one of the four commands of the
\* protocol, well formed, or whose channel closes.
FgRecvCommand == FgRecv /\ fg'.kind \notin OddKinds
NextWorkerCommands ==
    \/ FgRecvCommand
    \/ FgWriteHeader
    \/ FgWritePayload
    \/ FgLockTable
    \/ StartSession
    \/ ChunkGet
    \/ FgLockSession
    \/ ChunkAppend
    \/ StopGet
    \/ StopBody
    \/ StopGenerated
    \/ StopPop
    \/ ProcessExit
    \/ PollLockTable
    \/ PollLockSession
    \/ PollSnapshot
    \/ PollGenerated
    \/ PollWriteHeader
    \/ PollWritePayload

\* The threads sleep PARTIAL_INTERVAL_SEC between polls and the foreground
\* holds its locks for an append or a lookup, so a thread that wants a lock
\* again and again gets it; generate and the writes to stdout return.
\* Reading a frame waits for the peer; every other step of main() is taken.
PollerMoves(i) ==
    NextWorkerCommands /\ i <= Len(pollers) /\ pollers'[i] # pollers[i]
FgMoves == NextWorkerCommands /\ fg.pc # "recv" /\ fg' # fg
SpecWorkerFair ==
    /\ InitWorker /\ [][NextWorkerCommands]_vars
    /\ SF_vars(FgMoves)
    /\ \A i \in 1..MaxStarts : SF_vars(PollerMoves(i))

\* The worker fed a short run of start_session and non-empty audio_chunk
\* commands that all name one id (a session that is started again while
\* it is active), every partial transcription returning a text.
MaxRestartCmds == 5
FgRecvRestart ==
    /\ nCmds < MaxRestartCmds
    /\ FgReads({"start", "chunk"}, {"a"})
PollReturnsText ==
    /\ PollGenerated
    /\ \A i \in 1..Len(pollers) :
         pollers[i].pc = "generate" /\ pollers'[i].pc # "generate"
            => pollers'[i].pc = "send_header"
                  /\ pollers'[i].out.event = "partial"
NextWorkerRestart ==
    \/ FgRecvRestart
    \/ FgWriteHeader
    \/ FgWritePayload
    \/ FgLockTable
    \/ StartSession
    \/ ChunkGet
    \/ FgLockSession
    \/ ChunkAppend
    \/ PollLockTable
    \/ PollLockSession
    \/ PollSnapshot
    \/ PollReturnsText
    \/ PollWriteHeader
    \/ PollWritePayload
SpecWorkerRestart == InitWorker /\ [][NextWorkerRestart]_vars

====
